---- MODULE Spec2Model ----
(***************************************************************************)
(* zellij-mcp: the command runner (exec, zellij, zellijAction,             *)
(* zellijActionOrThrow) and the focus coordinator (getFocusedTabName,      *)
(* withFocusPreservation) of src/lib/zellij.ts, driven by concurrent       *)
(* callers against one multiplexer session.                                *)
(*                                                                         *)
(* One TLA+ step is one macrotask of the JavaScript event loop: the        *)
(* synchronous start of a call up to its first await, the execFile         *)
(* callback of a subprocess, or the firing of the post-action timer, each  *)
(* followed by every continuation that runs before the next suspension.    *)
(*                                                                         *)
(* Text (stdout, stderr, the layout dump) is a sequence of lexical tokens; *)
(* the content of a quoted string is one token (none when it is empty).    *)
(***************************************************************************)
EXTENDS Integers, Sequences, FiniteSets, TLC

VARIABLES
    env,        \* process.env.ZELLIJ_MCP_SESSION (null when unset)
    tabs,       \* the multiplexer session's tabs, in document order
    focus,      \* index in tabs of the tab reported as focused (0: none)
    panes,      \* per tab: the focused pane, panes numbered as they open
    files,      \* the dump files that exist in the dump directory
    call,       \* per caller: the frame and history of its current call
    starts,     \* the number of calls started so far
    focus0,     \* history: the focused tab when the session was last quiet
    lastWrite   \* history: the call whose command last set the focus

vars == <<env, tabs, focus, panes, files, call, starts, focus0, lastWrite>>

----------------------------------------------------------------------------
(* Program constants *)

DEFAULT_SESSION == "zellij-mcp"
DEFAULT_TIMEOUT_MS == 10000
POST_ACTION_DELAY_MS == 60

(* Bounds of the model *)

MaxStarts == 2              \* calls started in one behaviour

Calls == {1, 2}             \* the callers that may run concurrently

null == "<null>"            \* JavaScript null / undefined

----------------------------------------------------------------------------
(* Text *)

WS == {" ", "\n"}

\* mutant: whitespace is removed at both ends
RECURSIVE stripStart(_)
stripStart(t) ==
    IF t # <<>> /\ t[1] \in WS THEN stripStart(Tail(t)) ELSE t

RECURSIVE stripEnd(_)
stripEnd(t) ==
    IF t # <<>> /\ t[Len(t)] \in WS THEN stripEnd(SubSeq(t, 1, Len(t) - 1)) ELSE t

trim(t) == stripEnd(stripStart(t))

\* String.prototype.trimEnd
RECURSIVE trimEnd(_)
trimEnd(t) ==
    IF t # <<>> /\ t[Len(t)] \in WS THEN trimEnd(SubSeq(t, 1, Len(t) - 1)) ELSE t

----------------------------------------------------------------------------
(* Command Runner *)

NoOptions == [session |-> null, timeout |-> <<>>, raw |-> FALSE]

\* mutant: the environment wins over the per-call option
getSessionEnvFirst(options) ==
    IF env # null THEN env
    ELSE IF options.session # null THEN options.session
    ELSE DEFAULT_SESSION

getSession(options) ==
    IF options.session # null THEN options.session
    ELSE IF env # null THEN env
    ELSE DEFAULT_SESSION

\* zellij(): the timeout and the final argument list handed to exec
zellijTimeout(options) ==
    IF options.timeout # <<>> THEN options.timeout[1] ELSE DEFAULT_TIMEOUT_MS

\* mutant: the session is injected into raw calls too
zellijFinalArgsAlwaysSession(args, options) ==
    <<"--session", getSession(options)>> \o args

zellijFinalArgs(args, options) ==
    IF options.raw THEN args ELSE <<"--session", getSession(options)>> \o args

zellijActionArgs(args) == <<"action">> \o args

\* exec(): the execFile callback. child = [error, killed, code, stdout, stderr],
\* code = [t |-> "none" | "num" | "str", n |-> number]
\* mutant: only a numeric code counts as a failure
execExitCodeNumericOnly(child) ==
    IF child.error /\ child.code.t = "num" THEN child.code.n ELSE 0

execExitCode(child) ==
    IF ~child.error THEN 0
    ELSE IF child.code.t = "num" THEN child.code.n
    ELSE IF child.code.t # "none" THEN 1
    ELSE 0

\* mutant: every error of execFile rejects
execRejectsOnError(child, args, timeout) ==
    IF child.error
    THEN [rejected |-> TRUE,
          error |-> [name |-> "timeout", timeout |-> timeout, args |-> args]]
    ELSE [rejected |-> FALSE,
          result |-> [stdout |-> trimEnd(child.stdout),
                      stderr |-> trimEnd(child.stderr),
                      exitCode |-> 0]]

exec(child, args, timeout) ==
    IF child.error /\ child.killed
    THEN [rejected |-> TRUE,
          error |-> [name |-> "timeout", timeout |-> timeout, args |-> args]]
    ELSE [rejected |-> FALSE,
          result |-> [stdout |-> trimEnd(child.stdout),
                      stderr |-> trimEnd(child.stderr),
                      exitCode |-> execExitCode(child)]]

\* mutant: stdout is preferred to stderr
failureDetailStdoutFirst(result) ==
    IF result.stdout # <<>> THEN result.stdout
    ELSE IF result.stderr # <<>> THEN result.stderr
    ELSE <<"unknown error">>

\* the error zellijActionOrThrow composes for a non-zero exit
failureDetail(result) ==
    IF result.stderr # <<>> THEN result.stderr
    ELSE IF result.stdout # <<>> THEN result.stdout
    ELSE <<"unknown error">>

verbOf(args) == IF Len(args) > 0 THEN args[1] ELSE "undefined"

actionFailure(args, result) ==
    [name |-> "failed", what |-> "zellij action", verb |-> verbOf(args),
     exitCode |-> result.exitCode, detail |-> failureDetail(result)]

\* the error zellij_run_command's closure composes for a non-zero exit
runFailure(result) ==
    [name |-> "failed", what |-> "zellij", verb |-> "run",
     exitCode |-> result.exitCode, detail |-> failureDetail(result)]

\* zellijRaw's options: the caller's, with raw set
zellijRawOptions(options) == [options EXCEPT !.raw = TRUE]

\* the error zellijRawOrThrow composes for a non-zero exit
rawFailure(args, result) ==
    [name |-> "failed", what |-> "zellij", verb |-> verbOf(args),
     exitCode |-> result.exitCode, detail |-> failureDetail(result)]

----------------------------------------------------------------------------
(* Focus Coordinator: the focused tab of a layout dump *)

\* /tab\s+name="([^"]+)"[^{]*\bfocus=true/ attempted at token i; yields the
\* captured name, or null when the pattern does not match there
EndsInWordChar(tok) == tok \notin WS \cup {"\"", "name=\"", "{", "}"}

\* mutant: the search for focus=true runs past the tab's opening brace
MatchAtAcrossBraces(layout, i) ==
    LET n == Len(layout)
        after == {j \in (i + 1)..n : layout[j] \notin WS}
        j == IF after = {} THEN n + 1
             ELSE CHOOSE x \in after : \A y \in after : x <= y
    IN  IF /\ layout[i] = "tab"
           /\ j > i + 1
           /\ j + 2 <= n
           /\ layout[j] = "name=\""
           /\ layout[j + 1] # "\""
           /\ layout[j + 2] = "\""
           /\ \E m \in (j + 3)..n :
                /\ layout[m] = "focus=true"
                /\ ~EndsInWordChar(layout[m - 1])
        THEN layout[j + 1]
        ELSE null

MatchAt(layout, i) ==
    LET n == Len(layout)
        after == {j \in (i + 1)..n : layout[j] \notin WS}
        j == IF after = {} THEN n + 1
             ELSE CHOOSE x \in after : \A y \in after : x <= y
    IN  IF /\ layout[i] = "tab"
           /\ j > i + 1
           /\ j + 2 <= n
           /\ layout[j] = "name=\""
           /\ layout[j + 1] # "\""
           /\ layout[j + 2] = "\""
           /\ \E m \in (j + 3)..n :
                /\ layout[m] = "focus=true"
                /\ ~EndsInWordChar(layout[m - 1])
                /\ \A k \in (j + 3)..(m - 1) : layout[k] # "{"
        THEN layout[j + 1]
        ELSE null

\* mutant: the rightmost match is taken
MatchFocusedTabLast(layout) ==
    LET hits == {i \in 1..Len(layout) : MatchAt(layout, i) # null}
    IN  IF hits = {} THEN null
        ELSE MatchAt(layout, CHOOSE i \in hits : \A k \in hits : i >= k)

\* String.prototype.match: the leftmost position where the pattern matches
MatchFocusedTab(layout) ==
    LET hits == {i \in 1..Len(layout) : MatchAt(layout, i) # null}
    IN  IF hits = {} THEN null
        ELSE MatchAt(layout, CHOOSE i \in hits : \A k \in hits : i <= k)

----------------------------------------------------------------------------
(* The multiplexer, as the tools' documentation and the tests describe it:  *)
(* one live session; a command for another session exits non-zero.          *)

LiveSession == "zellij-mcp"

FocusedName(ts, f) == IF f = 0 THEN null ELSE ts[f]

\* dump-layout: one block per tab, the focused tab marked focus=true before
\* its brace, and inside every block the tab's focused pane marked focus=true
TabBlock(name, focused) ==
    <<" ", "tab", " ", "name=\"", name, "\"">>
    \o (IF focused THEN <<" ", "focus=true", " ", "hide_floating_panes=true">>
        ELSE <<>>)
    \o <<" ", "{", "\n", " ", "pane", " ", "focus=true", "\n", " ", "}", "\n">>

RECURSIVE RenderTabs(_, _, _)
RenderTabs(ts, f, i) ==
    IF i > Len(ts) THEN <<>>
    ELSE TabBlock(ts[i], i = f) \o RenderTabs(ts, f, i + 1)

RenderLayout(ts, f) ==
    <<"layout", " ", "{", "\n">> \o RenderTabs(ts, f, 1) \o <<"}", "\n">>

TabIndex(ts, name) ==
    LET at == {i \in 1..Len(ts) : ts[i] = name}
    IN  IF at = {} THEN 0 ELSE CHOOSE i \in at : \A k \in at : i <= k

\* a sequence without its i-th element
Without(seq, i) == SubSeq(seq, 1, i - 1) \o SubSeq(seq, i + 1, Len(seq))

\* what a delivered command does to the session:
\* [tabs, focus, panes, files, wrote, stdout]. A new tab or pane takes the
\* focus; go-to-tab-name moves the tab focus only; rename-tab and close-tab
\* act on the focused tab; dump-screen writes the file named last.
MuxApply(cmd) ==
    LET verb == verbOf(cmd)
        same == [tabs |-> tabs, focus |-> focus, panes |-> panes, files |-> files,
                 wrote |-> FALSE, stdout |-> <<>>]
    IN  CASE verb = "dump-layout" ->
               [same EXCEPT !.stdout = RenderLayout(tabs, focus)]
          [] verb = "go-to-tab-name" /\ Len(cmd) >= 2 /\ TabIndex(tabs, cmd[2]) # 0 ->
               [same EXCEPT !.focus = TabIndex(tabs, cmd[2]), !.wrote = TRUE]
          [] verb = "new-tab" /\ Len(cmd) >= 3 ->
               [same EXCEPT !.tabs = Append(tabs, cmd[3]),
                            !.panes = Append(panes, 1),
                            !.focus = Len(tabs) + 1, !.wrote = TRUE]
          [] verb \in {"new-pane", "run", "edit"} /\ focus # 0 ->
               [same EXCEPT !.panes[focus] = @ + 1]
          [] verb = "rename-tab" /\ Len(cmd) >= 2 /\ focus # 0 ->
               [same EXCEPT !.tabs[focus] = cmd[2]]
          [] verb = "close-tab" /\ focus # 0 ->
               [same EXCEPT !.tabs = Without(tabs, focus),
                            !.panes = Without(panes, focus),
                            !.focus = IF Len(tabs) = 1 THEN 0
                                      ELSE IF focus > 1 THEN focus - 1 ELSE 1,
                            !.wrote = TRUE]
          [] verb = "dump-screen" /\ focus # 0 ->
               [same EXCEPT !.files = files \cup {cmd[Len(cmd)]}]
          [] OTHER -> same

ChildOk(stdout) ==
    [error |-> FALSE, killed |-> FALSE, code |-> [t |-> "none", n |-> 0],
     stdout |-> stdout, stderr |-> <<>>]

ChildFailed(stderr) ==
    [error |-> TRUE, killed |-> FALSE, code |-> [t |-> "num", n |-> 1],
     stdout |-> <<>>, stderr |-> stderr]

ChildKilled ==
    [error |-> TRUE, killed |-> TRUE, code |-> [t |-> "none", n |-> 0],
     stdout |-> <<>>, stderr |-> <<>>]

\* every way one subprocess can end: [child, tabs, focus, panes, files, wrote]
MuxRespond(final) ==
    LET sessionOk == Len(final) >= 3 /\ final[1] = "--session" /\ final[2] = LiveSession
        cmd == IF sessionOk /\ final[3] = "action"
               THEN SubSeq(final, 4, Len(final))
               ELSE IF sessionOk /\ final[3] \in {"run", "edit"}
               THEN SubSeq(final, 3, Len(final))
               ELSE <<>>
        done == MuxApply(cmd)
        idle == [tabs |-> tabs, focus |-> focus, panes |-> panes,
                 files |-> files, wrote |-> FALSE]
        applied == [tabs |-> done.tabs, focus |-> done.focus,
                    panes |-> done.panes, files |-> done.files,
                    wrote |-> done.wrote]
        topLevel == final = <<>> \/ final[1] # "--session"
    IN  IF topLevel
        THEN {[child |-> ChildOk(<<LiveSession, "\n">>)] @@ idle,
              [child |-> ChildFailed(<<"command failed", "\n">>)] @@ idle,
              [child |-> ChildKilled] @@ idle}
        ELSE IF ~sessionOk
        THEN {[child |-> ChildFailed(<<"session not found", "\n">>)] @@ idle}
        ELSE {[child |-> ChildOk(done.stdout)] @@ applied,
              [child |-> ChildFailed(<<"command failed", "\n">>)] @@ idle,
              [child |-> ChildKilled] @@ idle,
              [child |-> ChildKilled] @@ applied}

----------------------------------------------------------------------------
(* Frames of the asynchronous calls *)

NoProc == [phase |-> "none"]

NoAction == [cmds |-> <<>>, throws |-> FALSE, value |-> null]

\* tool is the tool whose handler runs in the frame, if one does (pc handler,
\* tab_snapshot, tab_goto, tab_act, tab_restore, dump, read, unlink).
\* pc: idle, snapshot, action, restore, resolved, rejected; direct for a call
\* of a Command Runner function from outside and getFocusedTabName for a call
\* of that function from outside; focusedTab and
\* result are withFocusPreservation's locals; ai counts the closure's commands
\* issued; proc is the subprocess or timer awaited. History: alone (no other
\* call was in flight when this one started and none has started since) and
\* events (spawn, exit, settled, action_begin, action_end, in order).
NoTool == [name |-> "none"]

IdleCall ==
    [pc |-> "idle", tool |-> NoTool,
     preserve |-> FALSE, action |-> NoAction, options |-> NoOptions,
     focusedTab |-> null, result |-> null, ai |-> 0, proc |-> NoProc,
     alone |-> TRUE, outcome |-> [status |-> "pending"], events |-> <<>>]

InFlight(s) == s.pc \in {"snapshot", "action", "restore"}

Log(s, ev) == [s EXCEPT !.events = Append(@, ev)]

Resolve(s, v) ==
    [s EXCEPT !.pc = "resolved", !.proc = NoProc,
              !.outcome = [status |-> "resolved", value |-> v]]

Reject(s, err) ==
    [s EXCEPT !.pc = "rejected", !.proc = NoProc,
              !.outcome = [status |-> "rejected", error |-> err]]

\* zellij() down to execFile: the subprocess is spawned, the caller suspends
Spawn(s, by, via, args, options) ==
    LET final == zellijFinalArgs(args, options)
        timeout == zellijTimeout(options)
    IN  [Log(s, [e |-> "spawn", by |-> by, args |-> final, timeout |-> timeout])
           EXCEPT !.proc = [phase |-> "running", by |-> by, via |-> via,
                            args |-> args, final |-> final, timeout |-> timeout,
                            stdout |-> <<>>]]

\* zellijActionOrThrow up to its first await
zellijActionOrThrowBegin(s, by, args, options) ==
    [Spawn(s, by, "zellijActionOrThrow", zellijActionArgs(args), options)
       EXCEPT !.proc.args = args]

----------------------------------------------------------------------------
(* withFocusPreservation *)

\* mutant: the restore is not guarded by the snapshot's value
TruthyAlways(x) == TRUE

Truthy(x) == x # null /\ x # ""

\* mutant: the restore is forgotten
afterActionNoRestore(s, v) == Resolve([s EXCEPT !.result = v], v)

\* mutant: the snapshot lives in a variable shared by all calls, so a call
\* restores what another call in flight snapshotted last
afterActionSharedSnapshot(s, v) ==
    LET others == {d \in Calls : /\ call[d].events # s.events
                                  /\ InFlight(call[d])
                                  /\ call[d].focusedTab # null}
        shared == IF others = {} THEN s.focusedTab
                  ELSE call[CHOOSE d \in others : TRUE].focusedTab
    IN  IF shared # null /\ shared # ""
        THEN zellijActionOrThrowBegin([s EXCEPT !.pc = "restore", !.result = v],
                                      "restore", <<"go-to-tab-name", shared>>,
                                      s.options)
        ELSE Resolve([s EXCEPT !.result = v], v)

\* mutant: the restore is issued without the caller's options
afterActionDefaultOptions(s, v) ==
    IF Truthy(s.focusedTab)
    THEN zellijActionOrThrowBegin([s EXCEPT !.pc = "restore", !.result = v],
                                  "restore", <<"go-to-tab-name", s.focusedTab>>,
                                  NoOptions)
    ELSE Resolve([s EXCEPT !.result = v], v)

\* after `await action()` resolved with v
afterAction(s, v) ==
    IF Truthy(s.focusedTab)
    THEN zellijActionOrThrowBegin([s EXCEPT !.pc = "restore", !.result = v],
                                  "restore", <<"go-to-tab-name", s.focusedTab>>,
                                  s.options)
    ELSE Resolve([s EXCEPT !.result = v], v)

\* mutant: the action's rejection is swallowed and the focus restored
afterActionRejectedRestores(s, err) == afterAction(s, null)

\* `await action()` threw err
afterActionRejected(s, err) == Reject(s, err)

\* the restore command's await resolved
afterRestore(s) == Resolve(s, s.result)

\* the action's promise settles; withFocusPreservation continues
ActionResolved(s, v) ==
    LET t == Log(s, [e |-> "action_end", status |-> "resolved", value |-> v])
    IN  IF t.preserve THEN afterAction(t, v) ELSE Resolve(t, v)

ActionRejected(s, err) ==
    LET t == Log(s, [e |-> "action_end", status |-> "rejected", error |-> err])
    IN  IF t.preserve THEN afterActionRejected(t, err) ELSE Reject(t, err)

\* the caller's closure, from its next command on, up to its next suspension
ActionStep(s) ==
    LET i == s.ai + 1
    IN  IF i <= Len(s.action.cmds)
        THEN LET cmd == s.action.cmds[i]
                 t == [s EXCEPT !.ai = i]
             IN  IF cmd.via = "zellijActionOrThrow"
                 THEN zellijActionOrThrowBegin(t, "action", cmd.args, NoOptions)
                 ELSE Spawn(t, "action", cmd.via, cmd.args, NoOptions)
        ELSE IF s.action.throws
             THEN ActionRejected(s, [name |-> "custom", message |-> "boom"])
             ELSE ActionResolved(s, s.action.value)

InvokeAction(s) ==
    ActionStep(Log([s EXCEPT !.pc = "action", !.ai = 0, !.proc = NoProc],
                   [e |-> "action_begin"]))

\* getFocusedTabName after its await: the regular expression on the layout
getFocusedTabNameEnd(s, layout) ==
    [s EXCEPT !.focusedTab = MatchFocusedTab(layout)]

\* withFocusPreservation after `await getFocusedTabName(options)`
afterSnapshot(s) == InvokeAction(s)

\* mutant: the preserve flag is ignored
withFocusPreservationAlwaysSnapshots(s) ==
    zellijActionOrThrowBegin([s EXCEPT !.pc = "snapshot"], "snapshot",
                             <<"dump-layout">>, s.options)

\* withFocusPreservation from its entry to its first suspension
withFocusPreservation(s) ==
    IF ~s.preserve
    THEN InvokeAction(s)
    ELSE zellijActionOrThrowBegin([s EXCEPT !.pc = "snapshot"], "snapshot",
                                  <<"dump-layout">>, s.options)

----------------------------------------------------------------------------
(* Tool handlers *)

\* mutant: the flag is passed on as it is
toolPreserveIsSwitchTo(tool) == tool.switch_to = "true"

\* `!switch_to` of zellij_new_tab, zellij_new_pane, zellij_run_command
toolPreserve(tool) == tool.switch_to # "true"

\* the command zellij_rename_tab / zellij_close_tab is about
tabToolCommand(tool) ==
    IF tool.name = "zellij_rename_tab" THEN <<"rename-tab", tool.new>>
    ELSE <<"close-tab">>

tabToolDone(s) ==
    Resolve(s, [content |-> IF s.tool.name = "zellij_rename_tab"
                            THEN <<"Renamed tab", s.tool.target>>
                            ELSE <<"Closed tab", s.tool.target>>])

\* zellij_rename_tab / zellij_close_tab from entry to the first suspension
tabTool(s) ==
    IF Truthy(s.tool.target)
    THEN zellijActionOrThrowBegin([s EXCEPT !.pc = "tab_snapshot"], "snapshot",
                                  <<"dump-layout">>, NoOptions)
    ELSE zellijActionOrThrowBegin([s EXCEPT !.pc = "handler"], "action",
                                  tabToolCommand(s.tool), NoOptions)

\* mutant: the command is issued where the focus happens to be
tabToolAfterSnapshotStays(s) ==
    zellijActionOrThrowBegin([s EXCEPT !.pc = "tab_act"], "action",
                             tabToolCommand(s.tool), NoOptions)

\* after `await getFocusedTabName()`
tabToolAfterSnapshot(s) ==
    zellijActionOrThrowBegin([s EXCEPT !.pc = "tab_goto"], "goto",
                             <<"go-to-tab-name", s.tool.target>>, NoOptions)

\* after `await zellijActionOrThrow(["go-to-tab-name", target])`
tabToolAfterGoto(s) ==
    zellijActionOrThrowBegin([s EXCEPT !.pc = "tab_act"], "action",
                             tabToolCommand(s.tool), NoOptions)

\* mutant: the focus is left on the target's place
tabToolAfterActNoRestore(s) == tabToolDone(s)

\* mutant: the restore does not look at the target
tabToolAfterActAlwaysRestores(s) ==
    IF Truthy(s.focusedTab)
    THEN zellijActionOrThrowBegin([s EXCEPT !.pc = "tab_restore"], "restore",
                                  <<"go-to-tab-name", s.focusedTab>>, NoOptions)
    ELSE tabToolDone(s)

\* after the rename-tab / close-tab command
tabToolAfterAct(s) ==
    IF Truthy(s.focusedTab) /\ s.focusedTab # s.tool.target
    THEN zellijActionOrThrowBegin([s EXCEPT !.pc = "tab_restore"], "restore",
                                  <<"go-to-tab-name", s.focusedTab>>, NoOptions)
    ELSE tabToolDone(s)

DEFAULT_DUMP_DIR == "/tmp"

\* mutant: the file name does not depend on the clock
dumpPathIgnoresClock(now) == [dir |-> DEFAULT_DUMP_DIR, now |-> 0]

\* dumpPath(): the dump directory and the clock's milliseconds
dumpPath(now) == [dir |-> DEFAULT_DUMP_DIR, now |-> now]

\* dumpScreen from entry to the first suspension
dumpScreen(s) ==
    zellijActionOrThrowBegin(
        [s EXCEPT !.pc = "dump"], "action",
        IF s.tool.name = "zellij_read_pane_full"
        THEN <<"dump-screen", "--full", s.tool.path>>
        ELSE <<"dump-screen", s.tool.path>>,
        NoOptions)

\* an operation of node:fs/promises is started, the caller suspends
FsBegin(s, pc, op) ==
    [s EXCEPT !.pc = pc,
              !.proc = [phase |-> "fs", op |-> op, path |-> s.tool.path]]

\* after the dump-screen command: `await readFile(path)` inside try
dumpScreenAfterDump(s) == FsBegin(s, "read", "readFile")

\* mutant: no finally, a failed read leaves the file
dumpScreenAfterReadNoFinally(s, ok, content) ==
    LET t == Log(s, [e |-> "fs", op |-> "readFile", ok |-> ok])
    IN  IF ok
        THEN FsBegin([t EXCEPT !.result = [ok |-> TRUE, text |-> trimEnd(content)]],
                     "unlink", "unlink")
        ELSE Reject(t, [name |-> "fs", op |-> "readFile"])

\* readFile settled; the finally block starts unlink either way
dumpScreenAfterRead(s, ok, content) ==
    LET t == Log(s, [e |-> "fs", op |-> "readFile", ok |-> ok])
    IN  FsBegin([t EXCEPT !.result =
                    IF ok THEN [ok |-> TRUE, text |-> trimEnd(content)]
                    ELSE [ok |-> FALSE,
                          error |-> [name |-> "fs", op |-> "readFile"]]],
                "unlink", "unlink")

\* mutant: unlink's rejection is not caught
dumpScreenAfterUnlinkThrows(s, ok) ==
    LET t == Log(s, [e |-> "fs", op |-> "unlink", ok |-> ok])
    IN  IF ~ok THEN Reject(t, [name |-> "fs", op |-> "unlink"])
        ELSE IF t.result.ok THEN Resolve(t, [content |-> t.result.text])
        ELSE Reject(t, t.result.error)

\* unlink settled, its rejection caught: the try block's completion stands
dumpScreenAfterUnlink(s, ok) ==
    LET t == Log(s, [e |-> "fs", op |-> "unlink", ok |-> ok])
    IN  IF t.result.ok THEN Resolve(t, [content |-> t.result.text])
        ELSE Reject(t, t.result.error)

\* the handlers that issue one command and return its output or a notice
handlerDone(s, stdout) ==
    Resolve(s, [content |-> IF s.tool.name = "zellij_edit_file"
                            THEN <<"Opened", s.tool.file>>
                            ELSE IF s.tool.name = "zellij_write_to_pane"
                            THEN <<"Sent", s.tool.chars>>
                            ELSE IF s.tool.name \in {"zellij_rename_tab",
                                                     "zellij_close_tab"}
                            THEN <<"focused tab">>
                            ELSE stdout])

----------------------------------------------------------------------------
(* Continuations of one command *)

\* the awaited command resolved with stdout: the awaiting code goes on
Continue(s, stdout) ==
    CASE s.pc = "snapshot" -> afterSnapshot(getFocusedTabNameEnd(s, stdout))
      [] s.pc = "action" -> ActionStep([s EXCEPT !.proc = NoProc])
      [] s.pc = "restore" -> afterRestore(s)
      [] s.pc = "direct" -> Resolve(s, stdout)
      [] s.pc = "getFocusedTabName" ->
           Resolve(s, getFocusedTabNameEnd(s, stdout).focusedTab)
      [] s.pc = "handler" -> handlerDone(s, stdout)
      [] s.pc = "tab_snapshot" ->
           tabToolAfterSnapshot(getFocusedTabNameEnd(s, stdout))
      [] s.pc = "tab_goto" -> tabToolAfterGoto(s)
      [] s.pc = "tab_act" -> tabToolAfterAct(s)
      [] s.pc = "tab_restore" -> tabToolDone(s)
      [] s.pc = "dump" -> dumpScreenAfterDump(s)

\* mutant: a failed snapshot is taken to mean that no tab is focused
ThrowSnapshotFallback(s, err) ==
    IF s.pc = "snapshot" THEN afterSnapshot([s EXCEPT !.focusedTab = null])
    ELSE IF s.pc = "action" THEN ActionRejected(s, err)
    ELSE Reject(s, err)

\* mutant: the restore is best effort, its failure is swallowed and the
\* action's value returned
ThrowRestoreBestEffort(s, err) ==
    IF s.pc = "action" THEN ActionRejected(s, err)
    ELSE IF s.pc = "restore" THEN Resolve(s, s.result)
    ELSE Reject(s, err)

\* mutant: a failed rename-tab / close-tab is followed by the restore
ThrowTabRestores(s, err) ==
    IF s.pc = "action" THEN ActionRejected(s, err)
    ELSE IF s.pc = "tab_act" /\ Truthy(s.focusedTab)
    THEN zellijActionOrThrowBegin([s EXCEPT !.pc = "tab_restore"], "restore",
                                  <<"go-to-tab-name", s.focusedTab>>, NoOptions)
    ELSE Reject(s, err)

\* the awaited command rejected with err: the rejection propagates
Throw(s, err) ==
    IF s.pc = "action" THEN ActionRejected(s, err) ELSE Reject(s, err)

\* mutant: a failed command is issued once more
zellijActionOrThrowExitRetries(s, result) ==
    IF result.exitCode # 0
    THEN IF Len(SelectSeq(s.events, LAMBDA ev : ev.e = "exit")) < 2
         THEN zellijActionOrThrowBegin(s, s.proc.by, s.proc.args, s.options)
         ELSE Throw(s, actionFailure(s.proc.args, result))
    ELSE [s EXCEPT !.proc.phase = "settling", !.proc.stdout = result.stdout]

\* mutant: after a successful action a promise is awaited that nothing settles
zellijActionOrThrowExitHangs(s, result) ==
    IF result.exitCode # 0
    THEN Throw(s, actionFailure(s.proc.args, result))
    ELSE [s EXCEPT !.proc.phase = "lost", !.proc.stdout = result.stdout]

\* mutant: no settling delay after a successful action
zellijActionOrThrowExitNoDelay(s, result) ==
    IF result.exitCode # 0
    THEN Throw(s, actionFailure(s.proc.args, result))
    ELSE Continue(s, result.stdout)

\* zellijActionOrThrow after `await zellijAction(args, options)`
zellijActionOrThrowExit(s, result) ==
    IF result.exitCode # 0
    THEN Throw(s, actionFailure(s.proc.args, result))
    ELSE [s EXCEPT !.proc.phase = "settling", !.proc.stdout = result.stdout]

\* mutant: zellijRawOrThrow waits the settling delay too
zellijRawOrThrowExitSettles(s, result) ==
    IF result.exitCode # 0
    THEN Throw(s, rawFailure(s.proc.args, result))
    ELSE [s EXCEPT !.proc.phase = "settling", !.proc.stdout = result.stdout]

\* zellijRawOrThrow after `await zellijRaw(args, options)`
zellijRawOrThrowExit(s, result) ==
    IF result.exitCode # 0
    THEN Throw(s, rawFailure(s.proc.args, result))
    ELSE Continue(s, result.stdout)

\* zellij_run_command's closure after `await zellij(args)`
runCommandExit(s, result) ==
    IF result.exitCode # 0
    THEN Throw(s, runFailure(result))
    ELSE Continue(s, result.stdout)

\* the execFile callback and what runs after it; x is what exec settled with
OnExit(s, x, focusedNow) ==
    LET t == Log(s, [e |-> "exit", by |-> s.proc.by,
                     ok |-> (~x.rejected) /\ x.result.exitCode = 0,
                     focused |-> IF s.proc.by = "snapshot" THEN focusedNow ELSE null])
    IN  IF x.rejected THEN Throw(t, x.error)
        ELSE IF t.proc.via = "zellijActionOrThrow"
             THEN zellijActionOrThrowExit(t, x.result)
        ELSE IF t.proc.via = "zellijRawOrThrow"
             THEN zellijRawOrThrowExit(t, x.result)
        ELSE IF t.pc = "direct"
             THEN Resolve(t, x.result)
             ELSE runCommandExit(t, x.result)

\* the post-action timer fires
OnTimer(s) ==
    Continue(Log(s, [e |-> "settled", by |-> s.proc.by,
                     delay |-> POST_ACTION_DELAY_MS]),
             s.proc.stdout)

----------------------------------------------------------------------------
(* The callers *)

OrThrow(args) == [via |-> "zellijActionOrThrow", args |-> args]

MockResolved == [cmds |-> <<>>, throws |-> FALSE, value |-> "result"]
MockRejected == [cmds |-> <<>>, throws |-> TRUE, value |-> null]
NewTab ==
    [cmds |-> <<OrThrow(<<"new-tab", "--name", "test">>)>>,
     throws |-> FALSE, value |-> "action-done"]
GoToTab(name) ==
    [cmds |-> <<OrThrow(<<"go-to-tab-name", name>>)>>,
     throws |-> FALSE, value |-> "action-done"]
NewTabThenGo ==
    [cmds |-> <<OrThrow(<<"new-tab", "--name", "test">>),
                OrThrow(<<"go-to-tab-name", "editor">>)>>,
     throws |-> FALSE, value |-> "action-done"]
RunCommand ==
    [cmds |-> <<[via |-> "zellij", args |-> <<"run", "--", "ls">>]>>,
     throws |-> FALSE, value |-> null]

ActionSet ==
    {MockResolved, MockRejected, NewTab, GoToTab("editor"), NewTabThenGo, RunCommand}

\* every caller of withFocusPreservation passes no options (tabs.ts:87,
\* panes.ts:77): the session comes from the environment or the default
OptionSet == {NoOptions}

EnvSet == {null, "env-session"}

InitTabs == <<"editor", "server">>

\* every tab opens with one pane, which has the focus in its tab
InitPanes == [i \in 1..Len(InitTabs) |-> 1]

----------------------------------------------------------------------------
(* Specification *)

Init ==
    /\ env \in EnvSet
    /\ tabs = InitTabs
    /\ focus \in 0..Len(InitTabs)
    /\ panes = InitPanes
    /\ files = {}
    /\ call = [c \in Calls |-> IdleCall]
    /\ starts = 0
    /\ focus0 = FocusedName(tabs, focus)
    /\ lastWrite = [c |-> 0, by |-> "none"]

Quiet == \A d \in Calls : ~InFlight(call[d])

\* mutant: calls take a lock, one runs at a time
CanStartSerialized(c) == Quiet

\* a caller starts a call whenever its previous call has settled; nothing in
\* withFocusPreservation waits for a call of another caller
CanStart(c) == ~InFlight(call[c])

Start(c) ==
    /\ CanStart(c)
    /\ starts < MaxStarts
    /\ starts' = starts + 1
    /\ \E preserve \in BOOLEAN, action \in ActionSet, options \in OptionSet :
         call' = [d \in Calls |->
                    IF d = c
                    THEN withFocusPreservation(
                             [IdleCall EXCEPT !.preserve = preserve,
                                              !.action = action,
                                              !.options = options,
                                              !.alone = Quiet])
                    ELSE [call[d] EXCEPT !.alone = FALSE]]
    /\ focus0' = IF Quiet THEN FocusedName(tabs, focus) ELSE focus0
    /\ lastWrite' = IF Quiet \/ lastWrite.c = c
                    THEN [c |-> 0, by |-> "none"]
                    ELSE lastWrite
    /\ UNCHANGED <<env, tabs, focus, panes, files>>

ProcExit(c) ==
    /\ call[c].proc.phase = "running"
    /\ \E r \in MuxRespond(call[c].proc.final) :
         /\ tabs' = r.tabs
         /\ focus' = r.focus
         /\ panes' = r.panes
         /\ files' = r.files
         /\ lastWrite' = IF r.wrote THEN [c |-> c, by |-> call[c].proc.by]
                         ELSE lastWrite
         /\ call' = [call EXCEPT ![c] =
                       OnExit(@, exec(r.child, @.proc.final, @.proc.timeout),
                              FocusedName(r.tabs, r.focus))]
    /\ UNCHANGED <<env, starts, focus0>>

TimerFired(c) ==
    /\ call[c].proc.phase = "settling"
    /\ call' = [call EXCEPT ![c] = OnTimer(@)]
    /\ UNCHANGED <<env, tabs, focus, panes, files, starts, focus0, lastWrite>>

Next == \E c \in Calls : Start(c) \/ ProcExit(c) \/ TimerFired(c)

Spec == Init /\ [][Next]_vars

\* every subprocess ends, by itself or killed by execFile at its timeout, and
\* the event loop runs every timer that is due: weak fairness of ProcExit(c)
\* and of TimerFired(c), written out. ProcExit(c) is enabled exactly while
\* the subprocess runs, TimerFired(c) exactly while the timer is pending, and
\* each of their steps changes call[c].
Fairness ==
    \A c \in Calls :
        /\ \/ []<>(call[c].proc.phase # "running")
           \/ []<><<ProcExit(c)>>_vars
        /\ \/ []<>(call[c].proc.phase # "settling")
           \/ []<><<TimerFired(c)>>_vars

SpecFair == Spec /\ Fairness

----------------------------------------------------------------------------
(* The tools: one invocation of one tool's handler *)

NewPane ==
    [cmds |-> <<OrThrow(<<"new-pane">>)>>, throws |-> FALSE, value |-> null]

FocusTools == {"zellij_new_tab", "zellij_new_pane", "zellij_run_command"}

TabTools == {"zellij_rename_tab", "zellij_close_tab"}

ReadTools == {"zellij_read_pane", "zellij_read_pane_full"}

OutputTools == {"zellij_query_tab_names", "zellij_dump_layout",
                "zellij_list_clients"}

\* the invocations: the tool and the arguments its commands depend on
ToolSet ==
    {[name |-> n, switch_to |-> sw] :
        n \in FocusTools, sw \in {"unset", "false", "true"}}
    \cup {[name |-> n, new |-> "docs", target |-> tg] :
            n \in TabTools, tg \in {null, "editor", "server"}}
    \cup {[name |-> n, path |-> dumpPath(1)] : n \in ReadTools}
    \cup {[name |-> n] : n \in OutputTools \cup {"zellij_list_sessions"}}
    \cup {[name |-> "zellij_edit_file", file |-> "notes.txt"]}
    \cup {[name |-> "zellij_write_to_pane", chars |-> "ls", enter |-> en] :
            en \in {"unset", "false", "true"}}

\* the tool's closure handed to withFocusPreservation
toolAction(tool) ==
    CASE tool.name = "zellij_new_tab" -> NewTab
      [] tool.name = "zellij_new_pane" -> NewPane
      [] tool.name = "zellij_run_command" -> RunCommand

\* the command of a handler that issues one command
toolCommand(tool) ==
    CASE tool.name = "zellij_query_tab_names" -> <<"query-tab-names">>
      [] tool.name = "zellij_dump_layout" -> <<"dump-layout">>
      [] tool.name = "zellij_list_clients" -> <<"list-clients">>
      [] tool.name = "zellij_edit_file" -> <<"edit", tool.file>>
      [] tool.name = "zellij_write_to_pane" -> <<"write-chars", tool.chars>>

\* the handler from its entry to its first suspension
toolHandler(s) ==
    CASE s.tool.name \in FocusTools ->
           withFocusPreservation([s EXCEPT !.preserve = toolPreserve(s.tool),
                                           !.action = toolAction(s.tool)])
      [] s.tool.name \in TabTools -> tabTool(s)
      [] s.tool.name \in ReadTools -> dumpScreen(s)
      [] s.tool.name = "zellij_list_sessions" ->
           Spawn([s EXCEPT !.pc = "handler"], "action", "zellijRawOrThrow",
                 <<"list-sessions", "--short", "--no-formatting">>,
                 zellijRawOptions(NoOptions))
      [] OTHER ->
           zellijActionOrThrowBegin([s EXCEPT !.pc = "handler"], "action",
                                    toolCommand(s.tool), NoOptions)

\* history: the tool, and the session as it was when the handler was entered
ToolStart(c) ==
    /\ call[c].pc = "idle"
    /\ \E tool \in ToolSet :
         call' = [call EXCEPT ![c] =
                    toolHandler(Log([IdleCall EXCEPT !.tool = tool],
                                    [e |-> "tool", tool |-> tool, tabs |-> tabs,
                                     focus |-> focus, panes |-> panes]))]
    /\ UNCHANGED <<env, tabs, focus, panes, files, starts, focus0, lastWrite>>

\* a file operation settles: it succeeds only on a file that exists, and may
\* fail on any file (permissions, a vanished directory)
FsDone(c) ==
    /\ call[c].proc.phase = "fs"
    /\ \E ok \in (IF call[c].proc.path \in files THEN BOOLEAN ELSE {FALSE}) :
         IF call[c].proc.op = "readFile"
         THEN /\ call' = [call EXCEPT ![c] =
                            dumpScreenAfterRead(@, ok, <<"$", " ", "ls", "\n">>)]
              /\ files' = files
         ELSE /\ call' = [call EXCEPT ![c] = dumpScreenAfterUnlink(@, ok)]
              /\ files' = IF ok THEN files \ {call[c].proc.path} ELSE files
    /\ UNCHANGED <<env, tabs, focus, panes, starts, focus0, lastWrite>>

NextTools == ToolStart(1) \/ ProcExit(1) \/ TimerFired(1) \/ FsDone(1)

SpecTools == Init /\ [][NextTools]_vars

----------------------------------------------------------------------------
(* Two callers of zellij_read_pane / zellij_read_pane_full: each invocation
   reads the clock when it computes its dump path *)

MaxClock == 2

ReadStart(c) ==
    /\ call[c].pc = "idle"
    /\ \E n \in ReadTools, now \in 1..MaxClock :
         LET tool == [name |-> n, now |-> now, path |-> dumpPath(now)]
         IN  call' = [call EXCEPT ![c] =
                        toolHandler(Log([IdleCall EXCEPT !.tool = tool],
                                        [e |-> "tool", tool |-> tool,
                                         tabs |-> tabs, focus |-> focus,
                                         panes |-> panes]))]
    /\ UNCHANGED <<env, tabs, focus, panes, files, starts, focus0, lastWrite>>

NextReads ==
    \E c \in Calls : ReadStart(c) \/ ProcExit(c) \/ TimerFired(c) \/ FsDone(c)

SpecReads == Init /\ [][NextReads]_vars

----------------------------------------------------------------------------
(* withFocusPreservation called with options: a session, a timeout, both or
   neither *)

PreserveOptionSet ==
    [session : {null, "my-session", LiveSession}, timeout : {<<>>, <<5000>>},
     raw : {FALSE}]

PreserveStart(c) ==
    /\ call[c].pc = "idle"
    /\ \E preserve \in BOOLEAN, action \in {MockResolved, NewTab, RunCommand},
          options \in PreserveOptionSet :
         call' = [call EXCEPT ![c] =
                    withFocusPreservation(
                        Log([IdleCall EXCEPT !.preserve = preserve,
                                             !.action = action,
                                             !.options = options],
                            [e |-> "call", fn |-> "withFocusPreservation",
                             args |-> <<>>, options |-> options]))]
    /\ UNCHANGED <<env, tabs, focus, panes, files, starts, focus0, lastWrite>>

NextOptions == PreserveStart(1) \/ ProcExit(1) \/ TimerFired(1)

SpecOptions == Init /\ [][NextOptions]_vars

----------------------------------------------------------------------------
(* The Command Runner called directly: one call of one of its functions, with
   every input and every way its subprocess can end *)

Fns == {"zellij", "zellijAction", "zellijActionOrThrow", "zellijRaw",
        "zellijRawOrThrow"}

ArgSet == {<<>>, <<"list-sessions">>, <<"write-chars", "hello">>}

DirectOptionSet ==
    [session : {null, "my-session"}, timeout : {<<>>, <<5000>>}, raw : BOOLEAN]

StdoutSet == {<<>>, <<" ", " ", "out", "\n">>, <<"a", " ", "b", "\n", "\n">>}

StderrSet == {<<>>, <<"\n">>, <<" ", " ", "err", "\n">>}

\* what execFile hands its callback beside the output: no error; an error
\* with the child's numeric exit code; a spawn error with a string code; an
\* error with no code, the child having died of a signal it was not sent by
\* execFile; the child killed by execFile at the timeout
ChildStatusSet ==
    {[error |-> FALSE, killed |-> FALSE, code |-> [t |-> "none", n |-> 0]],
     [error |-> TRUE, killed |-> FALSE, code |-> [t |-> "num", n |-> 1]],
     [error |-> TRUE, killed |-> FALSE, code |-> [t |-> "num", n |-> 42]],
     [error |-> TRUE, killed |-> FALSE,
      code |-> [t |-> "str", n |-> 0, s |-> "ENOENT"]],
     [error |-> TRUE, killed |-> FALSE, code |-> [t |-> "none", n |-> 0]],
     [error |-> TRUE, killed |-> TRUE, code |-> [t |-> "none", n |-> 0]]}

Children ==
    {[error |-> st.error, killed |-> st.killed, code |-> st.code,
      stdout |-> o, stderr |-> e] :
        st \in ChildStatusSet, o \in StdoutSet, e \in StderrSet}

\* the called function from its entry to its first suspension
Direct(fn, args, options) ==
    LET s == Log([IdleCall EXCEPT !.pc = "direct", !.options = options],
                 [e |-> "call", fn |-> fn, args |-> args, options |-> options])
    IN  CASE fn = "zellij" -> Spawn(s, "direct", fn, args, options)
          [] fn = "zellijAction" ->
               [Spawn(s, "direct", fn, zellijActionArgs(args), options)
                  EXCEPT !.proc.args = args]
          [] fn = "zellijActionOrThrow" ->
               zellijActionOrThrowBegin(s, "direct", args, options)
          [] fn \in {"zellijRaw", "zellijRawOrThrow"} ->
               Spawn(s, "direct", fn, args, zellijRawOptions(options))

InitRunner ==
    /\ env \in EnvSet
    /\ tabs = InitTabs
    /\ focus = 1
    /\ panes = InitPanes
    /\ files = {}
    /\ call = [c \in Calls |-> IdleCall]
    /\ starts = 0
    /\ focus0 = FocusedName(tabs, focus)
    /\ lastWrite = [c |-> 0, by |-> "none"]

DirectStart(c) ==
    /\ call[c].pc = "idle"
    /\ \E fn \in Fns, args \in ArgSet, options \in DirectOptionSet :
         call' = [call EXCEPT ![c] = Direct(fn, args, options)]
    /\ UNCHANGED <<env, tabs, focus, panes, files, starts, focus0, lastWrite>>

\* the execFile callback runs with whatever the subprocess ended as
DirectExit(c) ==
    /\ call[c].pc = "direct"
    /\ call[c].proc.phase = "running"
    /\ \E child \in Children :
         call' = [call EXCEPT ![c] =
                    OnExit(Log(@, [e |-> "child", child |-> child]),
                           exec(child, @.proc.final, @.proc.timeout), null)]
    /\ UNCHANGED <<env, tabs, focus, panes, files, starts, focus0, lastWrite>>

NextRunner == DirectStart(1) \/ DirectExit(1) \/ TimerFired(1)

SpecRunner == InitRunner /\ [][NextRunner]_vars

----------------------------------------------------------------------------
(* getFocusedTabName called directly, on every dump of up to MaxBlocks tab
   blocks: a block is a tab's name and how focus is marked in it *)

MaxBlocks == 3

\* plain: no focus mark; pane: only the tab's pane is marked; focus: the tab
\* is marked; attrs: the tab is marked, attributes follow, its pane is marked;
\* between: the tab is marked after another attribute
BlockKinds == {"plain", "pane", "focus", "attrs", "between"}

BlockSet == [name : {"editor", "server"}, kind : BlockKinds]

LayoutBlock(b) ==
    <<" ", "tab", " ", "name=\"", b.name, "\"">>
    \o (CASE b.kind = "focus" -> <<" ", "focus=true">>
          [] b.kind = "attrs" ->
               <<" ", "focus=true", " ", "hide_floating_panes=true">>
          [] b.kind = "between" ->
               <<" ", "hide_floating_panes=true", " ", "focus=true">>
          [] OTHER -> <<>>)
    \o <<" ", "{", "\n", " ", "pane">>
    \o (IF b.kind \in {"pane", "attrs"} THEN <<" ", "focus=true">> ELSE <<>>)
    \o <<"\n", " ", "}", "\n">>

RECURSIVE LayoutBlocks(_)
LayoutBlocks(bs) ==
    IF bs = <<>> THEN <<>> ELSE LayoutBlock(Head(bs)) \o LayoutBlocks(Tail(bs))

LayoutOf(bs) == <<"layout", " ", "{", "\n">> \o LayoutBlocks(bs) \o <<"}">>

BlockSeqs == UNION {[1..n -> BlockSet] : n \in 0..MaxBlocks}

FocusedTabStart(c) ==
    /\ call[c].pc = "idle"
    /\ call' = [call EXCEPT ![c] =
                  zellijActionOrThrowBegin(
                      Log([IdleCall EXCEPT !.pc = "getFocusedTabName"],
                          [e |-> "call", fn |-> "getFocusedTabName",
                           args |-> <<>>, options |-> NoOptions]),
                      "direct", <<"dump-layout">>, NoOptions)]
    /\ UNCHANGED <<env, tabs, focus, panes, files, starts, focus0, lastWrite>>

\* dump-layout ends: it printed some layout, or failed, or was killed
LayoutExit(c) ==
    /\ call[c].pc = "getFocusedTabName"
    /\ call[c].proc.phase = "running"
    /\ \E bs \in BlockSeqs :
         \E child \in {ChildOk(LayoutOf(bs)),
                        ChildFailed(<<"command failed", "\n">>), ChildKilled} :
           call' = [call EXCEPT ![c] =
                      OnExit(Log(@, [e |-> "child", child |-> child,
                                     blocks |-> bs]),
                             exec(child, @.proc.final, @.proc.timeout), null)]
    /\ UNCHANGED <<env, tabs, focus, panes, files, starts, focus0, lastWrite>>

NextFocusedTab == FocusedTabStart(1) \/ LayoutExit(1) \/ TimerFired(1)

SpecFocusedTab == InitRunner /\ [][NextFocusedTab]_vars

----------------------------------------------------------------------------
(* Reading a call's history *)

Events(s, kind) == SelectSeq(s.events, LAMBDA ev : ev.e = kind)

Spawns(s) == Events(s, "spawn")

SpawnsBy(s, by) == SelectSeq(s.events, LAMBDA ev : ev.e = "spawn" /\ ev.by = by)

ExitsBy(s, by) == SelectSeq(s.events, LAMBDA ev : ev.e = "exit" /\ ev.by = by)

\* a spawned argument list without its "--session S" prefix
Command(final) == SubSeq(final, 3, Len(final))

Commands(s) == [i \in 1..Len(Spawns(s)) |-> Command(Spawns(s)[i].args)]

\* the snapshot subprocess exited 0 / what the session reported as focused then
SnapshotOk(s) == ExitsBy(s, "snapshot") # <<>> /\ ExitsBy(s, "snapshot")[1].ok

SnapshotFailed(s) == ExitsBy(s, "snapshot") # <<>> /\ ~ExitsBy(s, "snapshot")[1].ok

Reported(s) == IF SnapshotOk(s) THEN ExitsBy(s, "snapshot")[1].focused ELSE null

ActionEnded(s, status) ==
    Events(s, "action_end") # <<>> /\ Events(s, "action_end")[1].status = status

\* the commands the closure issues when each of them succeeds
ActionCommands(a) ==
    [i \in 1..Len(a.cmds) |->
        IF a.cmds[i].via = "zellijActionOrThrow"
        THEN <<"action">> \o a.cmds[i].args
        ELSE a.cmds[i].args]

DumpLayout == <<"action", "dump-layout">>

GoToTabName(name) == <<"action", "go-to-tab-name", name>>

Done(s) == s.pc \in {"resolved", "rejected"}

\* a tool invocation: the tool, and the session when the handler was entered
IsTool(s) == Events(s, "tool") # <<>>

Invoked(s) == Events(s, "tool")[1]

\* a direct call of a Command Runner function: what was called, with what
IsDirect(s) == Events(s, "call") # <<>>

Called(s) == Events(s, "call")[1]

\* its subprocess has ended / what execFile handed the callback
Ended(s) == Events(s, "child") # <<>>

Child(s) == Events(s, "child")[1].child

\* the functions that settle as exec settles
Plain == {"zellij", "zellijAction", "zellijRaw"}

\* a direct call of one of them, its subprocess ended
PlainEnded(s) == IsDirect(s) /\ Ended(s) /\ Called(s).fn \in Plain

IsPrefix(p, q) == Len(p) <= Len(q) /\ SubSeq(q, 1, Len(p)) = p

\* r is t without its trailing run of whitespace
TrailingTrimmed(r, t) ==
    /\ IsPrefix(r, t)
    /\ \A i \in (Len(r) + 1)..Len(t) : t[i] \in WS
    /\ r # <<>> => r[Len(r)] \notin WS

----------------------------------------------------------------------------
(* Claims *)

\* C1: a preserving call whose dump reports tab T as focused and whose action
\* resolves has spawned exactly: dump-layout, then every command of the
\* action, then one `action go-to-tab-name T`; and when it resolves, it
\* resolves with the value the action resolved with.
C1_SnapshotActionRestoreOrder ==
    \A c \in Calls :
        LET s == call[c]
            T == Reported(s)
        IN  (s.preserve /\ T # null /\ ActionEnded(s, "resolved")) =>
              /\ Commands(s) = <<DumpLayout>> \o ActionCommands(s.action)
                                 \o <<GoToTabName(T)>>
              /\ s.pc \in {"restore", "resolved", "rejected"}
              /\ s.pc = "resolved" =>
                   s.outcome = [status |-> "resolved", value |-> s.action.value]
              /\ s.pc = "rejected" => ~ExitsBy(s, "restore")[1].ok

C1_Witness ==
    \E c \in Calls :
        /\ call[c].preserve
        /\ call[c].pc = "resolved"
        /\ Reported(call[c]) = "server"
        /\ call[c].action = NewTabThenGo
        /\ Len(Spawns(call[c])) = 4
        /\ call[c].outcome.value = "action-done"

\* the closure issues one command, which moves the focus off tab T
MovesFocusAway(a, T) ==
    \/ a = NewTab /\ T # "test"
    \/ \E name \in {"editor", "server"} : a = GoToTab(name) /\ T # name

\* C2: round trip. A call that ran with no other call beside it, whose dump
\* reported T as focused and whose action issued one command that moved the
\* focus to another tab, has on resolving put the focus back on T with
\* exactly three subprocesses: dump-layout, the action's command, the restore.

C2_RoundTrip ==
    \A c \in Calls :
        LET s == call[c]
            T == Reported(s)
        IN  (/\ s.preserve /\ s.alone /\ s.pc = "resolved"
             /\ T # null /\ MovesFocusAway(s.action, T)) =>
              /\ FocusedName(tabs, focus) = T
              /\ Len(Spawns(s)) = 3
              /\ Commands(s)[1] = DumpLayout
              /\ Commands(s)[2] = ActionCommands(s.action)[1]
              /\ Commands(s)[3] = GoToTabName(T)

C2_Witness ==
    \E c \in Calls :
        /\ call[c].preserve /\ call[c].alone /\ call[c].pc = "resolved"
        /\ Reported(call[c]) = "server"
        /\ call[c].action = GoToTab("editor")
        /\ lastWrite = [c |-> c, by |-> "restore"]
        /\ FocusedName(tabs, focus) = "server"

\* C3: a call with preserve = false invokes the action exactly once, settles
\* exactly as the action settles, and spawns no snapshot and no restore.
C3_NoPreserveRunsActionOnly ==
    \A c \in Calls :
        LET s == call[c]
        IN  (s.pc # "idle" /\ ~s.preserve) =>
              /\ Len(Events(s, "action_begin")) = 1
              /\ SpawnsBy(s, "snapshot") = <<>>
              /\ SpawnsBy(s, "restore") = <<>>
              /\ \A i \in 1..Len(Spawns(s)) :
                    Command(Spawns(s)[i].args) = ActionCommands(s.action)[i]
              /\ Done(s) <=> Events(s, "action_end") # <<>>
              /\ ActionEnded(s, "resolved") =>
                   s.outcome = [status |-> "resolved",
                                value |-> Events(s, "action_end")[1].value]
              /\ ActionEnded(s, "rejected") =>
                   s.outcome = [status |-> "rejected",
                                error |-> Events(s, "action_end")[1].error]

C3_Witness ==
    \E c \in Calls :
        /\ ~call[c].preserve
        /\ call[c].pc = "resolved"
        /\ call[c].action = NewTab
        /\ Len(Spawns(call[c])) = 1
        /\ FocusedName(tabs, focus) = "test"

\* C4: a preserving call whose dump reports no focused tab spawns the
\* dump-layout and the action's commands but never a restore, and resolves
\* with the action's value as soon as the action resolves.
C4_NoFocusedTabNoRestore ==
    \A c \in Calls :
        LET s == call[c]
        IN  (s.preserve /\ SnapshotOk(s) /\ Reported(s) = null) =>
              /\ SpawnsBy(s, "restore") = <<>>
              /\ Commands(s)[1] = DumpLayout
              /\ \A i \in 2..Len(Spawns(s)) :
                    Commands(s)[i] = ActionCommands(s.action)[i - 1]
              /\ ActionEnded(s, "resolved") =>
                   /\ Len(Spawns(s)) = 1 + Len(s.action.cmds)
                   /\ s.outcome = [status |-> "resolved", value |-> s.action.value]

C4_Witness ==
    \E c \in Calls :
        /\ call[c].preserve
        /\ SnapshotOk(call[c]) /\ Reported(call[c]) = null
        /\ call[c].action = NewTab
        /\ call[c].pc = "resolved"
        /\ Len(Spawns(call[c])) = 2

\* C5: when the action of a preserving call rejects, no restore is spawned
\* and the call rejects with the action's own error.
C5_ActionRejectionSkipsRestore ==
    \A c \in Calls :
        LET s == call[c]
        IN  (s.preserve /\ ActionEnded(s, "rejected")) =>
              /\ SpawnsBy(s, "restore") = <<>>
              /\ s.events[Len(s.events)].e = "action_end"
              /\ s.outcome = [status |-> "rejected",
                              error |-> Events(s, "action_end")[1].error]

C5_Witness ==
    \E c \in Calls :
        /\ call[c].preserve /\ call[c].alone
        /\ Reported(call[c]) = "server"
        /\ call[c].action = NewTabThenGo
        /\ ActionEnded(call[c], "rejected")
        /\ Len(Spawns(call[c])) = 3
        /\ call[c].pc = "rejected"
        /\ call[c].outcome.error.name = "failed"
        /\ FocusedName(tabs, focus) = "test"

\* C6: when the snapshot of a preserving call fails (dump-layout exits
\* non-zero or is killed at its timeout) the action is never invoked, the
\* call spawns nothing more, and it rejects with the snapshot's error.
C6_SnapshotFailureAborts ==
    \A c \in Calls :
        LET s == call[c]
            e == s.outcome.error
            spawned == Spawns(s)[1]
        IN  (s.preserve /\ SnapshotFailed(s)) =>
              /\ s.pc = "rejected"
              /\ Events(s, "action_begin") = <<>>
              /\ Len(Spawns(s)) = 1
              /\ s.focusedTab = null
              /\ \/ /\ e.name = "timeout"
                    /\ e.args = spawned.args
                    /\ e.timeout = spawned.timeout
                 \/ /\ e.name = "failed"
                    /\ e.what = "zellij action"
                    /\ e.verb = "dump-layout"
                    /\ e.exitCode # 0

C6_Witness ==
    \E c \in Calls :
        /\ env = null
        /\ call[c].preserve
        /\ SnapshotFailed(call[c])
        /\ call[c].pc = "rejected"
        /\ call[c].outcome.error.name = "timeout"
        /\ call[c].outcome.error.timeout = DEFAULT_TIMEOUT_MS

\* C7: in every state a call has spawned at most one dump-layout snapshot and
\* at most one restore, and a restore only after its snapshot exited 0 and
\* yielded a tab name.
C7_AtMostOneSnapshotAndRestore ==
    \A c \in Calls :
        LET s == call[c]
        IN  /\ Len(SpawnsBy(s, "snapshot")) <= 1
            /\ Len(SpawnsBy(s, "restore")) <= 1
            /\ SpawnsBy(s, "restore") # <<>> =>
                 /\ SnapshotOk(s)
                 /\ s.focusedTab \notin {null, ""}
                 /\ Reported(s) # null

C7_Witness ==
    \E c \in Calls :
        /\ Len(SpawnsBy(call[c], "snapshot")) = 1
        /\ Len(SpawnsBy(call[c], "restore")) = 1
        /\ call[c].pc = "resolved"

\* C8: in a preserving call the action begins only after the snapshot
\* subprocess has exited and the snapshot's 60 ms delay has elapsed, and the
\* restore is spawned only after the action has resolved, every command of
\* the action having exited.
C8_SnapshotThenActionThenRestore ==
    \A c \in Calls :
        LET ev == call[c].events
        IN  call[c].preserve =>
              \A i \in 1..Len(ev) :
                /\ ev[i].e = "action_begin" =>
                     \E j \in 1..(i - 1), k \in 1..(i - 1) :
                        /\ j < k
                        /\ ev[j].e = "exit" /\ ev[j].by = "snapshot" /\ ev[j].ok
                        /\ ev[k].e = "settled" /\ ev[k].by = "snapshot"
                        /\ ev[k].delay = 60
                /\ (ev[i].e = "spawn" /\ ev[i].by = "restore") =>
                     /\ \E j \in 1..(i - 1) :
                           ev[j].e = "action_end" /\ ev[j].status = "resolved"
                     /\ Len(ExitsBy(call[c], "action"))
                          = Len(SpawnsBy(call[c], "action"))
                     /\ \A j \in 1..Len(ev) :
                           (ev[j].e \in {"spawn", "exit"} /\ ev[j].by = "action")
                              => j < i

C8_Witness ==
    \E c \in Calls :
        /\ call[c].preserve
        /\ call[c].pc = "restore"
        /\ call[c].action = NewTabThenGo
        /\ Len(Events(call[c], "settled")) = 3

\* every caller's call preserved focus, overlapped another and resolved
AllResolved ==
    \A c \in Calls : call[c].pc = "resolved" /\ call[c].preserve /\ ~call[c].alone

\* C9: concurrent preserving calls are not serialized: while one call is in
\* flight another caller can always start, and when every call has resolved
\* the focus is the tab reported to whichever call restored last. The witness
\* is the stomp: both calls resolved, the focus is not where it was before
\* either started.

C9_ConcurrentCallsNotSerialized ==
    /\ \A c \in Calls, d \in Calls :
          (InFlight(call[c]) /\ ~InFlight(call[d]) /\ starts < MaxStarts)
             => ENABLED Start(d)
    /\ (AllResolved /\ lastWrite.by = "restore") =>
          FocusedName(tabs, focus) = Reported(call[lastWrite.c])

C9_Witness ==
    /\ AllResolved
    /\ starts = 2
    /\ focus0 = "server"
    /\ \A c \in Calls : SpawnsBy(call[c], "restore") # <<>>
    /\ lastWrite.by = "restore"
    /\ FocusedName(tabs, focus) = "editor"

\* C10: the tab a call's restore names is the tab that call's own dump-layout
\* reported, whatever other calls snapshot meanwhile.
C10_SnapshotOwnedByCall ==
    \A c \in Calls :
        \A i \in 1..Len(SpawnsBy(call[c], "restore")) :
            /\ Command(SpawnsBy(call[c], "restore")[i].args)
                 = GoToTabName(Reported(call[c]))
            /\ call[c].focusedTab = Reported(call[c])

C10_Witness ==
    \E c \in Calls, d \in Calls :
        /\ ~call[c].alone /\ ~call[d].alone
        /\ Reported(call[c]) = "server"
        /\ Reported(call[d]) = "editor"
        /\ call[c].focusedTab = "server"
        /\ call[d].focusedTab = "editor"
        /\ call[c].pc = "restore" /\ call[d].pc = "restore"

\* C11: when the restore command of a preserving call fails (exits non-zero
\* or is killed at its timeout) after the action resolved, the call rejects
\* with the restore command's error: the action's value is not in the
\* outcome, nothing is spawned after the failed restore (the action's effects
\* stay), and the error is the plain error of a failed go-to-tab-name
\* command, with nothing that marks it as a restore failure.
C11_RestoreFailureRejects ==
    \A c \in Calls :
        LET s == call[c]
            spawned == SpawnsBy(s, "restore")[1]
        IN  (/\ s.preserve /\ ActionEnded(s, "resolved")
             /\ ExitsBy(s, "restore") # <<>> /\ ~ExitsBy(s, "restore")[1].ok) =>
              /\ s.pc = "rejected"
              /\ DOMAIN s.outcome = {"status", "error"}
              /\ s.events[Len(s.events)] = ExitsBy(s, "restore")[1]
              /\ \/ s.outcome.error = [name |-> "timeout",
                                       timeout |-> spawned.timeout,
                                       args |-> spawned.args]
                 \/ /\ s.outcome.error.name = "failed"
                    /\ s.outcome.error.what = "zellij action"
                    /\ s.outcome.error.verb = "go-to-tab-name"
                    /\ s.outcome.error.exitCode # 0
                    /\ DOMAIN s.outcome.error
                         = {"name", "what", "verb", "exitCode", "detail"}

C11_Witness ==
    \E c \in Calls :
        /\ call[c].preserve /\ call[c].alone
        /\ Reported(call[c]) = "server"
        /\ call[c].action = NewTab
        /\ ActionEnded(call[c], "resolved")
        /\ call[c].pc = "rejected"
        /\ ~ExitsBy(call[c], "restore")[1].ok
        /\ call[c].outcome.error.name = "failed"
        /\ FocusedName(tabs, focus) = "test"

\* C12: a non-raw call spawns its subprocess with ["--session", S, ...args],
\* and through zellijAction with ["--session", S, "action", ...args], where S
\* is the per-call session option if given, else the ZELLIJ_MCP_SESSION
\* environment value if set, else "zellij-mcp".
C12_SessionInjected ==
    \A c \in Calls :
        LET s == call[c]
            k == Called(s)
            S == IF k.options.session # null THEN k.options.session
                 ELSE IF env # null THEN env
                 ELSE "zellij-mcp"
        IN  (/\ IsDirect(s) /\ ~k.options.raw
             /\ k.fn \in {"zellij", "zellijAction", "zellijActionOrThrow"}) =>
              /\ Len(Spawns(s)) = 1
              /\ Spawns(s)[1].args =
                   IF k.fn = "zellij"
                   THEN <<"--session", S>> \o k.args
                   ELSE <<"--session", S, "action">> \o k.args

C12_Witness ==
    \E c \in Calls :
        /\ env = "env-session"
        /\ IsDirect(call[c])
        /\ Called(call[c]).fn = "zellijAction"
        /\ Called(call[c]).options.session = "my-session"
        /\ Spawns(call[c])[1].args
             = <<"--session", "my-session", "action", "write-chars", "hello">>

\* C13: a raw call (zellij with the raw option, zellijRaw, zellijRawOrThrow)
\* spawns its subprocess with exactly the caller's arguments, no "--session"
\* among them, whatever the session option and the environment are.
C13_RawArgsUntouched ==
    \A c \in Calls :
        LET s == call[c]
            k == Called(s)
        IN  (/\ IsDirect(s)
             /\ \/ k.fn = "zellij" /\ k.options.raw
                \/ k.fn \in {"zellijRaw", "zellijRawOrThrow"}) =>
              /\ Len(Spawns(s)) = 1
              /\ Spawns(s)[1].args = k.args
              /\ \A i \in 1..Len(Spawns(s)[1].args) :
                    Spawns(s)[1].args[i] # "--session"

C13_Witness ==
    \E c \in Calls :
        /\ env = "env-session"
        /\ IsDirect(call[c])
        /\ Called(call[c]).fn = "zellijRaw"
        /\ Called(call[c]).options.session = "my-session"
        /\ ~Called(call[c]).options.raw
        /\ Spawns(call[c])[1].args = <<"list-sessions">>

\* C14: the exit code of a Command Result is 0 only when the subprocess
\* succeeded; when it failed it is the child's numeric code if one is
\* reported, and 1 when the failure carries no numeric code (a non-numeric
\* code or no code at all).
C14_ExitCodeNormalised ==
    \A c \in Calls :
        LET s == call[c]
            ch == Child(s)
            r == s.outcome.value
        IN  (PlainEnded(s) /\ s.pc = "resolved") =>
              /\ r.exitCode = 0 => ~ch.error
              /\ (ch.error /\ ch.code.t = "num") => r.exitCode = ch.code.n
              /\ (ch.error /\ ch.code.t # "num") => r.exitCode = 1

\* C15: a call of zellij rejects if and only if its subprocess was killed at
\* the timeout; the rejection carries the timeout in force and the arguments
\* the subprocess was spawned with; every other ending, a non-zero exit
\* included, resolves with a Command Result.
C15_RejectsIffTimedOut ==
    \A c \in Calls :
        LET s == call[c]
            k == Called(s)
            ch == Child(s)
        IN  PlainEnded(s) =>
              /\ Done(s)
              /\ s.pc = "rejected" <=> (ch.error /\ ch.killed)
              /\ s.pc = "rejected" =>
                   /\ s.outcome.error.name = "timeout"
                   /\ s.outcome.error.timeout =
                        IF k.options.timeout = <<>> THEN 10000
                        ELSE k.options.timeout[1]
                   /\ s.outcome.error.args = Spawns(s)[1].args
              /\ s.pc = "resolved" =>
                   DOMAIN s.outcome.value = {"stdout", "stderr", "exitCode"}

C15_Witness ==
    \E c \in Calls :
        /\ PlainEnded(call[c])
        /\ call[c].pc = "rejected"
        /\ call[c].outcome.error =
             [name |-> "timeout", timeout |-> 5000,
              args |-> <<"--session", "zellij-mcp", "list-sessions">>]

\* C16 as stated: when the binary cannot be spawned (execFile reports a spawn
\* error, whose code is a string such as ENOENT) the call rejects.
C16_SpawnFailureRejects ==
    \A c \in Calls :
        (PlainEnded(call[c]) /\ Child(call[c]).code.t = "str") =>
            call[c].pc = "rejected"

\* C16: when the binary cannot be spawned (execFile reports a spawn error,
\* whose code is a string such as ENOENT) the call does not reject: it
\* resolves with a Command Result whose exit code is 1.
C16_SpawnFailureResolvesExitOne ==
    \A c \in Calls :
        LET s == call[c]
        IN  (PlainEnded(s) /\ Child(s).code.t = "str") =>
              /\ s.pc = "resolved"
              /\ DOMAIN s.outcome.value = {"stdout", "stderr", "exitCode"}
              /\ s.outcome.value.exitCode = 1

C16_Witness ==
    \E c \in Calls :
        /\ PlainEnded(call[c])
        /\ Called(call[c]).fn = "zellij"
        /\ Child(call[c]).code = [t |-> "str", n |-> 0, s |-> "ENOENT"]
        /\ call[c].pc = "resolved"
        /\ call[c].outcome.value.exitCode = 1

\* the subprocess exits 0 having written "  out\n" and "  err\n"
PaddedOutput(s) ==
    /\ PlainEnded(s)
    /\ ~Child(s).error
    /\ Child(s).stdout = <<" ", " ", "out", "\n">>
    /\ Child(s).stderr = <<" ", " ", "err", "\n">>

\* C17 as stated: a subprocess that exits 0 having written "  out\n" and
\* "  err\n" yields {stdout: "out", stderr: "err", exitCode: 0}.
C17_BothEndsTrimmed ==
    \A c \in Calls :
        PaddedOutput(call[c]) =>
            call[c].outcome =
                [status |-> "resolved",
                 value |-> [stdout |-> <<"out">>, stderr |-> <<"err">>,
                            exitCode |-> 0]]

\* C17: a subprocess that exits 0 having written "  out\n" and "  err\n"
\* yields {stdout: "  out", stderr: "  err", exitCode: 0}: the trailing
\* newline is removed, the leading spaces stay.
C17_TrailingEndTrimmed ==
    \A c \in Calls :
        PaddedOutput(call[c]) =>
            call[c].outcome =
                [status |-> "resolved",
                 value |-> [stdout |-> <<" ", " ", "out">>,
                            stderr |-> <<" ", " ", "err">>,
                            exitCode |-> 0]]

C17_Witness ==
    \E c \in Calls :
        /\ PaddedOutput(call[c])
        /\ Called(call[c]).fn = "zellij"
        /\ call[c].outcome.value.stdout = <<" ", " ", "out">>

\* C18: the stdout and stderr of a Command Result are the subprocess's output
\* without its trailing run of whitespace: leading and interior whitespace is
\* kept, only whitespace at the end is removed, and all of it.
C18_OnlyTrailingWhitespaceRemoved ==
    \A c \in Calls :
        LET s == call[c]
        IN  (PlainEnded(s) /\ s.pc = "resolved") =>
              /\ TrailingTrimmed(s.outcome.value.stdout, Child(s).stdout)
              /\ TrailingTrimmed(s.outcome.value.stderr, Child(s).stderr)

C18_Witness ==
    \E c \in Calls :
        /\ PlainEnded(call[c])
        /\ Child(call[c]).stdout = <<"a", " ", "b", "\n", "\n">>
        /\ Child(call[c]).stderr = <<" ", " ", "err", "\n">>
        /\ call[c].pc = "resolved"
        /\ call[c].outcome.value.stdout = <<"a", " ", "b">>
        /\ call[c].outcome.value.stderr = <<" ", " ", "err">>

\* a direct call of zellijActionOrThrow, its subprocess ended
OrThrowEnded(s) ==
    IsDirect(s) /\ Ended(s) /\ Called(s).fn = "zellijActionOrThrow"

\* C19 as stated: zellijActionOrThrow rejects exactly when the exit code is
\* non-zero, with the error that names the verb and embeds the detail; on
\* exit code 0 it resolves with the trimmed stdout.
C19_RejectsOnlyOnNonZeroExit ==
    \A c \in Calls :
        LET s == call[c]
        IN  (OrThrowEnded(s) /\ s.pc = "rejected") =>
              /\ s.outcome.error.name = "failed"
              /\ s.outcome.error.exitCode # 0

\* C19: zellijActionOrThrow rejects exactly when the exit code is non-zero or
\* the subprocess was killed at its timeout. Killed, it rejects with the
\* timeout error of zellij. On a non-zero exit its error names the verb
\* args[0] and the exit code, and embeds stderr if non-empty, else stdout if
\* non-empty, else "unknown error" (both as trimmed). On exit code 0 it
\* resolves with exactly the trimmed stdout.
C19_RejectsOnNonZeroExitOrTimeout ==
    \A c \in Calls :
        LET s == call[c]
            k == Called(s)
            ch == Child(s)
            x == execExitCode(ch)
            out == trimEnd(ch.stdout)
            err == trimEnd(ch.stderr)
        IN  (OrThrowEnded(s) /\ Done(s)) =>
              /\ s.pc = "rejected" <=> (ch.killed \/ x # 0)
              /\ ch.killed => s.outcome.error.name = "timeout"
              /\ (~ch.killed /\ x # 0) =>
                   s.outcome.error =
                     [name |-> "failed", what |-> "zellij action",
                      verb |-> IF k.args = <<>> THEN "undefined" ELSE k.args[1],
                      exitCode |-> x,
                      detail |-> IF err # <<>> THEN err
                                 ELSE IF out # <<>> THEN out
                                 ELSE <<"unknown error">>]
              /\ (~ch.killed /\ x = 0) =>
                   s.outcome = [status |-> "resolved", value |-> out]

C19_Witness ==
    \E c \in Calls :
        /\ OrThrowEnded(call[c])
        /\ Child(call[c]).stderr = <<"\n">>
        /\ call[c].pc = "rejected"
        /\ call[c].outcome.error.name = "failed"
        /\ call[c].outcome.error.verb = "write-chars"
        /\ call[c].outcome.error.exitCode = 42
        /\ call[c].outcome.error.detail = <<" ", " ", "out">>

\* C20: the settling delay of zellijActionOrThrow is applied on success and
\* only on success: after an exit with code 0 the call stays pending until
\* the 60 ms timer has fired and resolves then; after a non-zero exit or a
\* timeout it rejects at once, no timer having run.
C20_DelayOnSuccessOnly ==
    \A c \in Calls :
        LET s == call[c]
            ev == s.events
            last == ev[Len(ev)]
        IN  OrThrowEnded(s) =>
              /\ Len(ExitsBy(s, "direct")) = 1
              /\ ExitsBy(s, "direct")[1].ok =>
                   /\ s.pc \in {"direct", "resolved"}
                   /\ s.pc = "direct" <=> Events(s, "settled") = <<>>
                   /\ s.pc = "direct" =>
                        last.e = "exit" /\ s.proc.phase = "settling"
                   /\ s.pc = "resolved" =>
                        /\ last.e = "settled" /\ last.delay = 60
                        /\ ev[Len(ev) - 1].e = "exit"
              /\ ~ExitsBy(s, "direct")[1].ok =>
                   /\ s.pc = "rejected"
                   /\ Events(s, "settled") = <<>>
                   /\ last.e = "exit"

C20_Witness ==
    \E c \in Calls :
        /\ OrThrowEnded(call[c])
        /\ call[c].pc = "resolved"
        /\ Len(Events(call[c], "settled")) = 1
        /\ call[c].outcome.value = <<" ", " ", "out">>

\* a direct call of zellijRawOrThrow, its subprocess ended
RawOrThrowEnded(s) ==
    IsDirect(s) /\ Ended(s) /\ Called(s).fn = "zellijRawOrThrow"

\* C21 as stated: zellijRawOrThrow behaves as zellijActionOrThrow does, the
\* session flag apart: on a non-zero exit it rejects with the detail stderr,
\* then stdout, then "unknown error"; on exit code 0 it resolves with the
\* trimmed stdout, and only after the 60 ms settling delay.
C21_RawOrThrowSettlesToo ==
    \A c \in Calls :
        LET s == call[c]
            ch == Child(s)
            ev == s.events
        IN  (RawOrThrowEnded(s) /\ ~ch.killed) =>
              /\ execExitCode(ch) # 0 =>
                   /\ s.pc = "rejected"
                   /\ s.outcome.error.detail = failureDetail(
                        [stdout |-> trimEnd(ch.stdout),
                         stderr |-> trimEnd(ch.stderr)])
              /\ s.pc = "resolved" =>
                   /\ s.outcome.value = trimEnd(ch.stdout)
                   /\ ev[Len(ev)].e = "settled" /\ ev[Len(ev)].delay = 60

\* C21: zellijRawOrThrow spawns exactly the caller's arguments. On a non-zero
\* exit it rejects with an error that names the verb args[0] and the exit
\* code and embeds stderr if non-empty, else stdout if non-empty, else
\* "unknown error"; killed at the timeout it rejects with the timeout error;
\* on exit code 0 it resolves with exactly the trimmed stdout. It settles in
\* the step in which the subprocess ends: there is no settling delay.
C21_RawOrThrowNoDelay ==
    \A c \in Calls :
        LET s == call[c]
            k == Called(s)
            ch == Child(s)
            x == execExitCode(ch)
            out == trimEnd(ch.stdout)
            err == trimEnd(ch.stderr)
        IN  RawOrThrowEnded(s) =>
              /\ Spawns(s)[1].args = k.args
              /\ Done(s)
              /\ Events(s, "settled") = <<>>
              /\ s.events[Len(s.events)].e = "exit"
              /\ s.pc = "rejected" <=> (ch.killed \/ x # 0)
              /\ ch.killed => s.outcome.error.name = "timeout"
              /\ (~ch.killed /\ x # 0) =>
                   s.outcome.error =
                     [name |-> "failed", what |-> "zellij",
                      verb |-> IF k.args = <<>> THEN "undefined" ELSE k.args[1],
                      exitCode |-> x,
                      detail |-> IF err # <<>> THEN err
                                 ELSE IF out # <<>> THEN out
                                 ELSE <<"unknown error">>]
              /\ (~ch.killed /\ x = 0) =>
                   s.outcome = [status |-> "resolved", value |-> out]

C21_Witness ==
    \E c \in Calls :
        /\ RawOrThrowEnded(call[c])
        /\ Called(call[c]).args = <<"list-sessions">>
        /\ call[c].pc = "resolved"
        /\ call[c].outcome.value = <<" ", " ", "out">>
        /\ Len(call[c].events) = 4

\* C22: every command a call issues is one subprocess, spawned once: spawns
\* and exits alternate, the action's subprocesses are as many as the commands
\* the closure has issued, and after a subprocess that failed (non-zero exit
\* or timeout) the call spawns nothing more and is rejected in that step.
C22_OneSubprocessNoRetry ==
    \A c \in Calls :
        LET s == call[c]
            ev == SelectSeq(s.events, LAMBDA e : e.e \in {"spawn", "exit"})
        IN  /\ \A i \in 1..Len(ev) :
                  ev[i].e = (IF i % 2 = 1 THEN "spawn" ELSE "exit")
            /\ Len(SpawnsBy(s, "action")) = s.ai
            /\ Len(SpawnsBy(s, "snapshot")) <= 1
            /\ Len(SpawnsBy(s, "restore")) <= 1
            /\ \A i \in 1..Len(s.events) :
                  (s.events[i].e = "exit" /\ ~s.events[i].ok) =>
                     /\ s.pc = "rejected"
                     /\ s.outcome.error.name \in {"timeout", "failed"}
                     /\ \A j \in (i + 1)..Len(s.events) :
                           s.events[j].e # "spawn"

C22_Witness ==
    \E c \in Calls :
        /\ call[c].preserve
        /\ call[c].action = NewTabThenGo
        /\ call[c].pc = "rejected"
        /\ Len(Spawns(call[c])) = 2
        /\ SnapshotOk(call[c])
        /\ ~ExitsBy(call[c], "action")[1].ok
        /\ call[c].outcome.error.name = "timeout"

\* the tab blocks of the dump that mark the tab itself as focused
MarkedBlocks(bs) ==
    {i \in 1..Len(bs) : bs[i].kind \in {"focus", "attrs", "between"}}

\* C23: getFocusedTabName resolves, on a dump with exactly one tab block
\* marked focus=true, with that tab's name; on a dump with no focus=true
\* anywhere, with null; on a dump with several tab blocks marked focus=true,
\* with the name of the first of them in document order. (A focus=true on a
\* pane inside a tab block marks no tab.)
C23_FirstFocusedTabOrNull ==
    \A c \in Calls :
        LET s == call[c]
            bs == Events(s, "child")[1].blocks
            F == MarkedBlocks(bs)
            first == CHOOSE i \in F : \A k \in F : i <= k
        IN  (/\ s.pc = "resolved" /\ IsDirect(s)
             /\ Called(s).fn = "getFocusedTabName") =>
              /\ Cardinality(F) = 1 => s.outcome.value = bs[first].name
              /\ (\A i \in 1..Len(bs) : bs[i].kind = "plain") =>
                   s.outcome.value = null
              /\ F = {} => s.outcome.value = null
              /\ Cardinality(F) > 1 => s.outcome.value = bs[first].name

C23_Witness ==
    \E c \in Calls :
        /\ call[c].pc = "resolved"
        /\ Called(call[c]).fn = "getFocusedTabName"
        /\ Events(call[c], "child")[1].blocks
             = <<[name |-> "editor", kind |-> "pane"],
                 [name |-> "server", kind |-> "attrs"],
                 [name |-> "editor", kind |-> "focus"]>>
        /\ call[c].outcome.value = "server"

\* C24: every withFocusPreservation call in flight is waiting for a
\* subprocess to end or for the settling timer, nothing else, and, every
\* subprocess ending and every timer firing, it eventually resolves or
\* rejects.
C24_EveryCallCompletes ==
    \A c \in Calls :
        /\ [](InFlight(call[c]) => call[c].proc.phase \in {"running", "settling"})
        /\ InFlight(call[c]) ~> Done(call[c])

C24_Witness ==
    \E c \in Calls :
        /\ call[c].preserve /\ ~call[c].alone
        /\ call[c].action = NewTabThenGo
        /\ call[c].pc = "resolved"
        /\ Len(Events(call[c], "exit")) = 4
        /\ Len(Events(call[c], "settled")) = 4

\* C25: after zellij_new_pane or zellij_run_command with switch_to unset or
\* false has returned, the focused pane is the pane that was focused before
\* the call: the same tab is focused and its focused pane is the same.
C25_PaneFocusPreserved ==
    \A c \in Calls :
        LET s == call[c]
            k == Invoked(s)
        IN  (/\ IsTool(s) /\ s.pc = "resolved"
             /\ k.tool.name \in {"zellij_new_pane", "zellij_run_command"}
             /\ k.tool.switch_to # "true") =>
              /\ focus = k.focus
              /\ panes = k.panes

\* a rename or close with a target that exists and is not the focused tab
TargetsOtherTab(s) ==
    /\ IsTool(s)
    /\ Invoked(s).tool.name \in TabTools
    /\ Invoked(s).tool.target # null
    /\ TabIndex(Invoked(s).tabs, Invoked(s).tool.target) # 0
    /\ Invoked(s).focus # 0
    /\ Invoked(s).tabs[Invoked(s).focus] # Invoked(s).tool.target

\* C26: zellij_rename_tab with a target T that is not the focused tab F has,
\* when it returns, issued in order dump-layout, go-to-tab-name T, rename-tab
\* <name>, go-to-tab-name F; the focused tab is F, and the tab that was
\* called T bears the new name, every other tab its old one.
C26_RenameTargetKeepsFocus ==
    \A c \in Calls :
        LET s == call[c]
            k == Invoked(s)
            T == k.tool.target
            F == k.tabs[k.focus]
        IN  (/\ TargetsOtherTab(s) /\ k.tool.name = "zellij_rename_tab"
             /\ s.pc = "resolved") =>
              /\ Commands(s) = <<DumpLayout, GoToTabName(T),
                                 <<"action", "rename-tab", k.tool.new>>,
                                 GoToTabName(F)>>
              /\ focus = k.focus
              /\ FocusedName(tabs, focus) = F
              /\ tabs = [k.tabs EXCEPT ![TabIndex(k.tabs, T)] = k.tool.new]

C26_Witness ==
    \E c \in Calls :
        /\ TargetsOtherTab(call[c])
        /\ Invoked(call[c]).tool.name = "zellij_rename_tab"
        /\ Invoked(call[c]).tool.target = "editor"
        /\ call[c].pc = "resolved"
        /\ tabs = <<"docs", "server">>
        /\ focus = 2

\* C27: zellij_close_tab with a target T that is not the focused tab F has,
\* when it returns, issued in order dump-layout, go-to-tab-name T, close-tab,
\* go-to-tab-name F; tab T is closed, every other tab is still there, and
\* the focused tab is F.
C27_CloseTargetRestoresFocus ==
    \A c \in Calls :
        LET s == call[c]
            k == Invoked(s)
            T == k.tool.target
            F == k.tabs[k.focus]
        IN  (/\ TargetsOtherTab(s) /\ k.tool.name = "zellij_close_tab"
             /\ s.pc = "resolved") =>
              /\ Commands(s) = <<DumpLayout, GoToTabName(T),
                                 <<"action", "close-tab">>, GoToTabName(F)>>
              /\ tabs = Without(k.tabs, TabIndex(k.tabs, T))
              /\ focus # 0
              /\ FocusedName(tabs, focus) = F

C27_Witness ==
    \E c \in Calls :
        /\ TargetsOtherTab(call[c])
        /\ Invoked(call[c]).tool.name = "zellij_close_tab"
        /\ Invoked(call[c]).tool.target = "editor"
        /\ call[c].pc = "resolved"
        /\ tabs = <<"server">>
        /\ focus = 1

\* C28: zellij_new_tab, zellij_new_pane and zellij_run_command run
\* withFocusPreservation once, with preserve true exactly when switch_to is
\* unset or false: then one snapshot is spawned before the action; with
\* switch_to true the action runs with no snapshot and no restore.
C28_PreserveIsNotSwitchTo ==
    \A c \in Calls :
        LET s == call[c]
            k == Invoked(s)
        IN  (IsTool(s) /\ k.tool.name \in FocusTools) =>
              /\ s.preserve <=> k.tool.switch_to \in {"unset", "false"}
              /\ Len(Events(s, "action_begin")) <= 1
              /\ k.tool.switch_to = "true" =>
                   /\ SpawnsBy(s, "snapshot") = <<>>
                   /\ SpawnsBy(s, "restore") = <<>>
                   /\ Len(Events(s, "action_begin")) = 1
              /\ k.tool.switch_to # "true" =>
                   /\ Len(SpawnsBy(s, "snapshot")) = 1
                   /\ Spawns(s)[1].by = "snapshot"

C28_Witness ==
    \E c \in Calls :
        /\ IsTool(call[c])
        /\ Invoked(call[c]).tool = [name |-> "zellij_run_command",
                                    switch_to |-> "unset"]
        /\ call[c].pc = "resolved"
        /\ Len(SpawnsBy(call[c], "restore")) = 1

\* C29: in zellij_read_pane and zellij_read_pane_full, once the dump-screen
\* command has succeeded, one read and then one unlink of the dump file are
\* attempted, the unlink whether the read succeeded or failed; the tool
\* returns the file's text exactly when the read succeeded, whatever the
\* unlink did. When the dump-screen command fails, the tool rejects with its
\* error and no read and no unlink is attempted.
C29_DumpFileLifecycle ==
    \A c \in Calls :
        LET s == call[c]
            fs == Events(s, "fs")
            dumped == ExitsBy(s, "action")
        IN  (IsTool(s) /\ Invoked(s).tool.name \in ReadTools) =>
              /\ (dumped = <<>> \/ ~dumped[1].ok) => fs = <<>>
              /\ (dumped # <<>> /\ ~dumped[1].ok) =>
                   /\ s.pc = "rejected"
                   /\ s.outcome.error.name \in {"timeout", "failed"}
              /\ Len(fs) <= 2
              /\ Len(fs) >= 1 => fs[1].op = "readFile"
              /\ Len(fs) = 2 => fs[2].op = "unlink"
              /\ Done(s) => (dumped # <<>> /\ dumped[1].ok => Len(fs) = 2)
              /\ (Len(fs) = 2 /\ fs[1].ok) =>
                   s.outcome = [status |-> "resolved",
                                value |-> [content |-> <<"$", " ", "ls">>]]
              /\ (Len(fs) = 2 /\ ~fs[1].ok) =>
                   s.outcome = [status |-> "rejected",
                                error |-> [name |-> "fs", op |-> "readFile"]]

C29_Witness ==
    \E c \in Calls :
        /\ IsTool(call[c])
        /\ Invoked(call[c]).tool.name = "zellij_read_pane"
        /\ call[c].pc = "resolved"
        /\ Events(call[c], "fs")[2] = [e |-> "fs", op |-> "unlink", ok |-> FALSE]
        /\ files = {dumpPath(1)}

\* C30: when the multiplexer command of zellij_edit_file, zellij_list_sessions,
\* zellij_query_tab_names, zellij_dump_layout or zellij_list_clients fails,
\* the handler does not reject: it resolves with a result that has isError
\* set.
C30_FailureBecomesErrorResult ==
    \A c \in Calls :
        LET s == call[c]
        IN  (/\ IsTool(s)
             /\ Invoked(s).tool.name \in OutputTools \cup
                    {"zellij_list_sessions", "zellij_edit_file"}
             /\ Events(s, "exit") # <<>> /\ ~Events(s, "exit")[1].ok) =>
              /\ s.pc = "resolved"
              /\ "isError" \in DOMAIN s.outcome.value

\* C31: zellij_write_to_pane, when it returns, has issued write-chars with
\* the characters and then, unless enter is false, `write 13`, in that
\* order; with enter false it has issued the write-chars command only.
C31_WriteCharsThenEnter ==
    \A c \in Calls :
        LET s == call[c]
            k == Invoked(s)
        IN  (/\ IsTool(s) /\ k.tool.name = "zellij_write_to_pane"
             /\ s.pc = "resolved") =>
              Commands(s) =
                IF k.tool.enter = "false"
                THEN <<<<"action", "write-chars", k.tool.chars>>>>
                ELSE <<<<"action", "write-chars", k.tool.chars>>,
                       <<"action", "write", "13">>>>

\* C32: in an invocation of zellij_new_tab, zellij_new_pane or
\* zellij_run_command that preserves focus, a command is spawned only after
\* the command before it has ended with exit code 0 and the 60 ms settling
\* timer after it has fired; so the restoring go-to-tab-name is spawned only
\* after the settling delay of the action's last command.
C32_EachCommandAfterSettling ==
    \A c \in Calls :
        LET s == call[c]
            ev == s.events
        IN  (/\ IsTool(s) /\ Invoked(s).tool.name \in FocusTools
             /\ Invoked(s).tool.switch_to # "true") =>
              \A j \in 1..Len(ev) : \A i \in 1..(j - 1) :
                  (ev[j].e = "spawn" /\ ev[i].e = "exit") =>
                    /\ ev[i].ok
                    /\ \E k \in (i + 1)..(j - 1) :
                         /\ ev[k].e = "settled"
                         /\ ev[k].delay = POST_ACTION_DELAY_MS

\* C33: getFocusedTabName returns a name only of a tab block that carries
\* focus=true after its name attribute and before its opening brace, other
\* attributes allowed in between, and of the first such block; a focus=true
\* inside a tab's block, on its pane, makes neither that tab nor an earlier
\* one the result: with only such marks the result is null.
C33_FocusMarkBeforeBrace ==
    \A c \in Calls :
        LET s == call[c]
            bs == Events(s, "child")[1].blocks
            v == s.outcome.value
        IN  (/\ s.pc = "resolved" /\ IsDirect(s)
             /\ Called(s).fn = "getFocusedTabName") =>
              /\ v # null =>
                   \E i \in 1..Len(bs) :
                       /\ bs[i].name = v
                       /\ bs[i].kind \in {"focus", "attrs", "between"}
                       /\ \A k \in 1..(i - 1) : bs[k].kind \in {"plain", "pane"}
              /\ (\A i \in 1..Len(bs) : bs[i].kind \in {"plain", "pane"}) =>
                   v = null
              /\ \A i \in 1..Len(bs) :
                   (/\ bs[i].kind = "between"
                    /\ \A k \in 1..(i - 1) : bs[k].kind \in {"plain", "pane"}) =>
                     v = bs[i].name

C33_Witness ==
    \E c \in Calls :
        /\ call[c].pc = "resolved"
        /\ Called(call[c]).fn = "getFocusedTabName"
        /\ Events(call[c], "child")[1].blocks
             = <<[name |-> "editor", kind |-> "pane"],
                 [name |-> "server", kind |-> "between"]>>
        /\ call[c].outcome.value = "server"

\* a rename or close whose target is set
HasTarget(s) ==
    /\ IsTool(s)
    /\ Invoked(s).tool.name \in TabTools
    /\ Invoked(s).tool.target # null

\* C34: zellij_rename_tab and zellij_close_tab with a target, when the
\* snapshot reports no focused tab or reports the target itself, never issue
\* a restoring go-to-tab-name: the handler returns after exactly two commands
\* following the snapshot, go-to-tab-name target and rename-tab / close-tab.
C34_NoRestoreWithoutOtherFocus ==
    \A c \in Calls :
        LET s == call[c]
            k == Invoked(s)
        IN  (/\ HasTarget(s) /\ SnapshotOk(s)
             /\ Reported(s) \in {null, k.tool.target}) =>
              /\ SpawnsBy(s, "restore") = <<>>
              /\ Len(Spawns(s)) <= 3
              /\ s.pc = "resolved" =>
                   Commands(s) = <<DumpLayout, GoToTabName(k.tool.target),
                                   <<"action">> \o tabToolCommand(k.tool)>>

C34_Witness ==
    \E c \in Calls :
        /\ HasTarget(call[c])
        /\ Invoked(call[c]).tool.name = "zellij_rename_tab"
        /\ SnapshotOk(call[c])
        /\ Reported(call[c]) = "editor"
        /\ Invoked(call[c]).tool.target = "editor"
        /\ call[c].pc = "resolved"

\* C35: in zellij_rename_tab and zellij_close_tab with a target, rename-tab /
\* close-tab is spawned only after go-to-tab-name target has exited with code
\* 0 and its settling timer has fired; when the snapshot or the go-to-tab-name
\* fails the command is never spawned, and the session's tabs are then as
\* they were. Whatever happens, no tab but the target is renamed or closed.
C35_ActOnlyAfterGotoSettled ==
    \A c \in Calls :
        LET s == call[c]
            k == Invoked(s)
            ev == s.events
            iT == TabIndex(k.tabs, k.tool.target)
        IN  HasTarget(s) =>
              /\ \A j \in 1..Len(ev) :
                   (ev[j].e = "spawn" /\ ev[j].by = "action") =>
                     \E i \in 1..(j - 1) : \E m \in (i + 1)..(j - 1) :
                         /\ ev[i] = [e |-> "exit", by |-> "goto", ok |-> TRUE,
                                     focused |-> null]
                         /\ ev[m] = [e |-> "settled", by |-> "goto",
                                     delay |-> POST_ACTION_DELAY_MS]
              /\ (\/ SnapshotFailed(s)
                  \/ (ExitsBy(s, "goto") # <<>> /\ ~ExitsBy(s, "goto")[1].ok)) =>
                   /\ SpawnsBy(s, "action") = <<>>
                   /\ s.pc = "rejected"
                   /\ tabs = k.tabs
              /\ tabs \in {k.tabs, Without(k.tabs, iT),
                           [k.tabs EXCEPT ![iT] = k.tool.new]}

C35_Witness ==
    \E c \in Calls :
        /\ HasTarget(call[c])
        /\ Invoked(call[c]).tool = [name |-> "zellij_close_tab", new |-> "docs",
                                    target |-> "server"]
        /\ Invoked(call[c]).focus = 1
        /\ ExitsBy(call[c], "goto") # <<>>
        /\ ~ExitsBy(call[c], "goto")[1].ok
        /\ call[c].pc = "rejected"
        /\ tabs = <<"editor", "server">>

\* C36: in zellij_rename_tab and zellij_close_tab with a target, when the
\* rename-tab / close-tab command fails, the handler rejects and no restoring
\* go-to-tab-name is spawned; the session being otherwise untouched, the
\* focus is on the target tab, where the handler moved it.
C36_FailedActLeavesFocusOnTarget ==
    \A c \in Calls :
        LET s == call[c]
            k == Invoked(s)
        IN  (/\ HasTarget(s) /\ ExitsBy(s, "action") # <<>>
             /\ ~ExitsBy(s, "action")[1].ok) =>
              /\ s.pc = "rejected"
              /\ SpawnsBy(s, "restore") = <<>>
              /\ Len(tabs) = Len(k.tabs) =>
                   focus = TabIndex(k.tabs, k.tool.target)

C36_Witness ==
    \E c \in Calls :
        /\ HasTarget(call[c])
        /\ Invoked(call[c]).tool = [name |-> "zellij_close_tab", new |-> "docs",
                                    target |-> "editor"]
        /\ Invoked(call[c]).focus = 2
        /\ ExitsBy(call[c], "action") # <<>>
        /\ ~ExitsBy(call[c], "action")[1].ok
        /\ call[c].pc = "rejected"
        /\ tabs = <<"editor", "server">>
        /\ focus = 1

\* C37: the snapshot and the restore of one withFocusPreservation call are
\* spawned with the options the call was given: both with the timeout and
\* the session these options resolve to, and the restore as
\* `--session S action go-to-tab-name <name>` for the snapshotted name.
C37_RestoreUsesSnapshotOptions ==
    \A c \in Calls :
        LET s == call[c]
            sn == SpawnsBy(s, "snapshot")[1]
            rs == SpawnsBy(s, "restore")[1]
            given == Called(s).options
        IN  (/\ IsDirect(s) /\ Called(s).fn = "withFocusPreservation"
             /\ SpawnsBy(s, "restore") # <<>>) =>
              /\ sn.timeout = zellijTimeout(given)
              /\ rs.timeout = sn.timeout
              /\ sn.args = <<"--session", getSession(given), "action",
                             "dump-layout">>
              /\ rs.args = <<"--session", sn.args[2], "action",
                             "go-to-tab-name", Reported(s)>>

C37_Witness ==
    \E c \in Calls :
        /\ IsDirect(call[c])
        /\ Called(call[c]).fn = "withFocusPreservation"
        /\ Called(call[c]).options =
             [session |-> LiveSession, timeout |-> <<5000>>, raw |-> FALSE]
        /\ env = "env-session"
        /\ call[c].pc = "resolved"
        /\ SpawnsBy(call[c], "restore") # <<>>
        /\ SpawnsBy(call[c], "restore")[1].timeout = 5000

\* a read invocation whose dump-screen command has exited with code 0
Dumped(s) ==
    /\ IsTool(s)
    /\ Invoked(s).tool.name \in ReadTools
    /\ ExitsBy(s, "action") # <<>>
    /\ ExitsBy(s, "action")[1].ok

\* C38: two invocations of zellij_read_pane / zellij_read_pane_full hand
\* dump-screen the same file path exactly when they computed it in the same
\* millisecond; both dumps then go to one file, so that after both have
\* dumped there is at most that one file, which the unlink of either removes.
C38_SameMillisecondSamePath ==
    \A c, d \in Calls :
        LET s == call[c]
            u == call[d]
            ps == Spawns(s)[1].args[Len(Spawns(s)[1].args)]
            pu == Spawns(u)[1].args[Len(Spawns(u)[1].args)]
        IN  (/\ c # d /\ IsTool(s) /\ IsTool(u)
             /\ Invoked(s).tool.name \in ReadTools
             /\ Invoked(u).tool.name \in ReadTools) =>
              /\ ps = pu <=> Invoked(s).tool.now = Invoked(u).tool.now
              /\ (ps = pu /\ Dumped(s) /\ Dumped(u)) => files \subseteq {ps}

\* the collision: both invocations dumped in the same millisecond, one has
\* read and deleted the file, and the other, whose own dump-screen succeeded,
\* is about to read a file that is no longer there
C38_Witness ==
    \E c, d \in Calls :
        /\ c # d
        /\ Dumped(call[c]) /\ Dumped(call[d])
        /\ Invoked(call[c]).tool.now = Invoked(call[d]).tool.now
        /\ call[c].pc = "resolved"
        /\ Events(call[c], "fs")[2] = [e |-> "fs", op |-> "unlink", ok |-> TRUE]
        /\ call[d].proc.phase = "fs"
        /\ call[d].proc.op = "readFile"
        /\ call[d].proc.path \notin files

====
